---- MODULE Spec2Model ----
(***************************************************************************)
(* Model of llm-json-parse: the validate - dispatch - validate pipeline of *)
(* internal/server, the schema cache and validator of internal/schema and  *)
(* the LLM client of internal/client.                                      *)
(*                                                                         *)
(* Byte strings (schemas, payloads, response bodies) are sequences of JSON *)
(* tokens: punctuation, one token per string or number literal, and " "    *)
(* for a run of insignificant whitespace.  Two byte strings are equal iff  *)
(* their token sequences are equal.                                        *)
(***************************************************************************)
EXTENDS Integers, Sequences, FiniteSets, TLC

(***************************************************************************)
(* Bounds of the model.                                                    *)
(***************************************************************************)
\* capacity the cache is constructed with (NewSchemaCache(maxSize))
MaxSize == 2
\* number of cache insertions the sequential validator runs are followed for
MaxSets == 4
\* number of ticks the wall clock is followed for
MaxTicks == 1

(***************************************************************************)
(* State.                                                                  *)
(***************************************************************************)
\* the requests in flight at the same time, one goroutine each (net/http)
Requests == {1, 2}

VARIABLES
    schemas,    \* SchemaCache.schemas: cache key -> compiled schema
    pc,         \* per request: where handleValidatedQuery stands
    req,        \* per request: the decoded ValidatedQueryRequest
    compiled,   \* per request: the schema compiled after a miss, not yet stored
    upstream,   \* per request: what the backend did with the outbound call
    outbound,   \* per request: the body of the request sent to the backend
    response,   \* per request: what SendStructuredQuery returned (data, err)
    w,          \* per request: the http.ResponseWriter
    trail,      \* per request: the orchestrator states passed through
    calls,      \* per request: calls made to the validator and the client
    args,       \* per request: the arguments of those calls
    attempts,   \* per request: outbound HTTP attempts made by the client
    rid,        \* per request: the handler's requestID
    mw,         \* per request: what the middleware chain holds for it
    last,       \* sequential validator runs: the record of the last call
    nSets,      \* sequential validator runs: insertions made so far
    maxSize,    \* SchemaCache.maxSize
    mu,         \* SchemaCache.mu: who holds and who waits for the RWMutex
    th,         \* goroutines calling the cache directly: their calls in progress
    exch,       \* per connection: the HTTP exchange inside the middleware chain
    now         \* the wall clock as last read (time.Now().UnixNano())

vars == <<schemas, pc, req, compiled, upstream, outbound, response, w, trail, calls, args,
          attempts, rid, mw, last, nSets, maxSize, mu, th, exch, now>>
serverVars == <<pc, req, compiled, upstream, outbound, response, w, trail, calls, args,
                attempts, rid, mw>>
unitVars == <<last, nSets>>
cacheVars == <<maxSize, mu, th>>
chainVars == <<exch, now>>

(***************************************************************************)
(* JSON text (encoding/json as used by the repository).                    *)
(***************************************************************************)
Ws == {" ", "\n"}
StringToks == {"\"type\"", "\"object\"", "\"invalid_type\"", "\"required\"",
               "\"name\"", "\"age\"", "\"John\"", "\"<John>\"",
               "\"\\u003cJohn\\u003e\""}
NumberToks == {"25"}
Scalars == StringToks \cup NumberToks \cup {"true", "false", "null"}

\* the bytes without insignificant whitespace
StripWs(b) == SelectSeq(b, LAMBDA t : t \notin Ws)

RECURSIVE Value(_, _), Members(_, _), Elements(_, _)
\* Value(c, i): the index after the JSON value that starts at c[i], 0 if none
Value(c, i) ==
    IF i > Len(c) THEN 0
    ELSE IF c[i] \in Scalars THEN i + 1
    ELSE IF c[i] = "{" THEN
        IF i + 1 <= Len(c) /\ c[i + 1] = "}" THEN i + 2 ELSE Members(c, i + 1)
    ELSE IF c[i] = "[" THEN
        IF i + 1 <= Len(c) /\ c[i + 1] = "]" THEN i + 2 ELSE Elements(c, i + 1)
    ELSE 0
\* Members(c, i): after "{" or ",": string ":" value, then "," or "}"
Members(c, i) ==
    IF i + 1 > Len(c) \/ c[i] \notin StringToks \/ c[i + 1] # ":" THEN 0
    ELSE LET j == Value(c, i + 2) IN
         IF j = 0 \/ j > Len(c) THEN 0
         ELSE IF c[j] = "}" THEN j + 1
         ELSE IF c[j] = "," THEN Members(c, j + 1)
         ELSE 0
\* Elements(c, i): after "[" or ",": value, then "," or "]"
Elements(c, i) ==
    LET j == Value(c, i) IN
    IF j = 0 \/ j > Len(c) THEN 0
    ELSE IF c[j] = "]" THEN j + 1
    ELSE IF c[j] = "," THEN Elements(c, j + 1)
    ELSE 0

\* b is exactly one JSON value
WellFormed(b) == LET c == StripWs(b) IN Len(c) > 0 /\ Value(c, 1) = Len(c) + 1

\* the HTML-safe form of a string literal: "<" ">" "&" become \u003c \u003e \u0026
EscapeHTML(t) == IF t = "\"<John>\"" THEN "\"\\u003cJohn\\u003e\"" ELSE t

\* the compact, HTML-safe form of a JSON text: whitespace dropped, HTML escaped
Compact(b) ==
    LET c == StripWs(b) IN [i \in 1..Len(c) |-> EscapeHTML(c[i])]

RECURSIVE Depth(_, _)
\* nesting depth of position i: brackets opened and not yet closed before c[i]
Depth(c, i) ==
    IF i <= 1 THEN 0
    ELSE Depth(c, i - 1)
         + (IF c[i - 1] \in {"{", "["} THEN 1 ELSE 0)
         - (IF c[i] \in {"}", "]"} THEN 1 ELSE 0)

\* the member names of a top-level JSON object
TopKeys(c) ==
    {c[i] : i \in {j \in 1..(Len(c) - 1) : c[j + 1] = ":" /\ Depth(c, j) = 1}}

\* the value of member k of a top-level object: the index where it starts
MemberAt(c, k) ==
    {j + 2 : j \in {i \in 1..(Len(c) - 2) :
                      c[i] = k /\ c[i + 1] = ":" /\ Depth(c, i) = 1}}

\* the JSON type of the document that starts at c[i], as a schema type name
DocType(c, i) ==
    IF c[i] = "{" THEN "\"object\""
    ELSE IF c[i] = "[" THEN "\"array\""
    ELSE IF c[i] \in StringToks THEN "\"string\""
    ELSE IF c[i] \in NumberToks THEN "\"number\""
    ELSE IF c[i] \in {"true", "false"} THEN "\"boolean\""
    ELSE "\"null\""

(***************************************************************************)
(* Schema documents and payloads of the model.                             *)
(***************************************************************************)
\* {"type":"object","required":["name","age"]}
S_person == <<"{", "\"type\"", ":", "\"object\"", ",", "\"required\"", ":",
              "[", "\"name\"", ",", "\"age\"", "]", "}">>
\* the same document with whitespace: { "type":"object", "required":["name","age"]}
S_personWs == <<"{", " ", "\"type\"", ":", "\"object\"", ",", " ", "\"required\"",
                ":", "[", "\"name\"", ",", "\"age\"", "]", "}">>
\* {"type":"object","required":["name"]}
S_name == <<"{", "\"type\"", ":", "\"object\"", ",", "\"required\"", ":",
            "[", "\"name\"", "]", "}">>
\* {"type":"object"}
S_any == <<"{", "\"type\"", ":", "\"object\"", "}">>
\* {"type":"invalid_type"}: JSON, but no JSON Schema
S_bad == <<"{", "\"type\"", ":", "\"invalid_type\"", "}">>
\* {"type": cut short: not JSON
S_cut == <<"{", "\"type\"", ":">>
\* no bytes at all: the nil RawMessage of a request without a "schema" member
S_none == <<>>

Schemas == {S_person, S_personWs, S_name, S_any, S_bad, S_cut, S_none}

\* {"name":"John","age":25}
P_john == <<"{", "\"name\"", ":", "\"John\"", ",", "\"age\"", ":", "25", "}">>
\* {"name": "<John>", "age": 25}: whitespace and HTML characters
P_spaced == <<"{", "\"name\"", ":", " ", "\"<John>\"", ",", " ", "\"age\"", ":",
              " ", "25", "}">>
\* {"name":"John"}
P_nameOnly == <<"{", "\"name\"", ":", "\"John\"", "}">>
\* {"name": "John"}: the same document as an upstream usually spaces it
P_nameWs == <<"{", "\"name\"", ":", " ", "\"John\"", "}">>
\* John is 25: no JSON
P_text == <<"John", " ", "is", " ", "25">>

Payloads == {P_john, P_spaced, P_nameOnly, P_nameWs, P_text}

\* every byte string the model hands to encoding/json
Texts == Schemas \cup Payloads

\* json.Unmarshal(b, &v) into an interface{}: an error, or the document, of
\* which its JSON type and (of an object) its member names are kept
Unmarshal(b) ==
    LET c == StripWs(b) IN
    IF ~WellFormed(b) THEN [err |-> "invalid character", type |-> "", keys |-> {}]
    ELSE [err |-> "", type |-> DocType(c, 1), keys |-> TopKeys(c)]

\* Unmarshal and Compact of every text, computed once
unmarshalled == [b \in Texts |-> Unmarshal(b)]
compacted == [b \in Texts |-> Compact(b)]

\* json.Unmarshal(b, &v) returns no error
JSONValid(b) == unmarshalled[b].err = ""

\* appendCompact(dst, src, escapeHTML = true), as json.Marshal and
\* Encoder.Encode apply it to a json.RawMessage
AppendCompact(b) == compacted[b]

(***************************************************************************)
(* internal/schema: the compiler, the cache and the validator.             *)
(***************************************************************************)
Nil == [nil |-> TRUE]

\* sha256.Sum256(schemaBytes): the digest as <<bytes 1-4, bytes 5-16, bytes 17-32>>.
\* Distinct documents have distinct digests; S_name and S_any agree on the
\* first four bytes.
Sum256(b) ==
    CASE b = S_person   -> <<"a1", "01", "f1">>
      [] b = S_personWs -> <<"b2", "02", "f2">>
      [] b = S_name     -> <<"c3", "03", "f3">>
      [] b = S_any      -> <<"c3", "04", "f4">>
      [] b = S_bad      -> <<"d4", "05", "f5">>
      [] b = S_cut      -> <<"e5", "06", "f6">>
      [] OTHER          -> <<"e3", "b0", "c4">>

\* the cache key cut down to the first four bytes of the digest
CacheKeyShort(b) == SubSeq(Sum256(b), 1, 1)

\* cacheKey := fmt.Sprintf("%x", hash[:16])
CacheKey(b) == SubSeq(Sum256(b), 1, 2)

\* schemaURL := fmt.Sprintf("https://example.com/schema-%s.json", cacheKey[:8])
SchemaURL(key) == <<"https://example.com/schema-", key[1], ".json">>

SimpleTypes == {"\"object\"", "\"array\"", "\"string\"", "\"number\"", "\"integer\"",
                "\"boolean\"", "\"null\""}

\* the "type" keyword of a schema object, "" when absent
TypeOf(c) ==
    LET at == MemberAt(c, "\"type\"") IN
    IF at = {} THEN "" ELSE c[CHOOSE i \in at : TRUE]

\* the names listed by the "required" keyword of a schema object
RequiredOf(c) ==
    LET at == MemberAt(c, "\"required\"") IN
    IF at = {} THEN {}
    ELSE LET i == CHOOSE j \in at : TRUE
             e == Value(c, i)
         IN {c[j] : j \in {k \in (i + 1)..(e - 2) :
                               c[k] \in StringToks /\ Depth(c, k) = 2}}

\* the keywords the jsonschema compiler reads from a schema document
Keywords(b) ==
    LET c == StripWs(b) IN
    IF ~WellFormed(b) \/ DocType(c, 1) # "\"object\"" THEN [type |-> "", required |-> {}]
    ELSE [type |-> TypeOf(c), required |-> RequiredOf(c)]

\* Keywords of every schema document, computed once
keywords == [b \in Schemas |-> Keywords(b)]

\* jsonschema.NewCompiler(): a compiler whose registry of resources, url ->
\* document, is empty
NewCompiler == <<>>

\* compiler.AddResource(url, reader): the document must be JSON and is
\* registered under url
AddResource(c, url, b) ==
    IF ~JSONValid(b) THEN [compiler |-> c, err |-> "invalid json"]
    ELSE [compiler |-> [u \in DOMAIN c \cup {url} |-> IF u = url THEN b ELSE c[u]],
          err |-> ""]

\* compiler.Compile(url): the resource registered under url must be a schema
\* object whose "type" names a JSON type.  who identifies the
\* *jsonschema.Schema object this run allocates.
CompileURL(c, url, who) ==
    LET b == c[url] IN
    IF unmarshalled[b].type # "\"object\"" \/ keywords[b].type \notin SimpleTypes \cup {""}
    THEN [schema |-> Nil, err |-> "compile schema"]
    ELSE [schema |-> [url |-> url, type |-> keywords[b].type,
                      required |-> keywords[b].required, obj |-> who],
          err |-> ""]

\* a compiler that other compiles have used: its registry holds the document
\* S_name under the URL made for it
UsedCompiler == [u \in {SchemaURL(CacheKey(S_name))} |-> S_name]

\* AddResource leaving a resource in place that is registered under url
AddResourceKeepFirst(c, url, b) ==
    IF ~JSONValid(b) THEN [compiler |-> c, err |-> "invalid json"]
    ELSE [compiler |-> [u \in DOMAIN c \cup {url} |-> IF u \in DOMAIN c THEN c[u] ELSE b],
          err |-> ""]

\* Compile on one compiler shared by all compiles, whose registry keeps what
\* was registered first under a URL
CompileSharedRegistry(b, url, who) ==
    LET added == AddResourceKeepFirst(UsedCompiler, url, b) IN
    IF added.err # "" THEN [schema |-> Nil, err |-> "add schema resource"]
    ELSE CompileURL(added.compiler, url, who)

\* compiler := jsonschema.NewCompiler(), compiler.AddResource(schemaURL, ...)
\* and compiler.Compile(schemaURL): each compile has a compiler of its own,
\* with the one resource it registers
Compile(b, url, who) ==
    LET added == AddResource(NewCompiler, url, b) IN
    IF added.err # "" THEN [schema |-> Nil, err |-> "add schema resource"]
    ELSE CompileURL(added.compiler, url, who)

\* schema.Validate(responseData) on the unmarshalled payload d: the type and
\* the required members
Validate(schema, d) ==
    /\ schema.type \in {"", unmarshalled[d].type}
    /\ unmarshalled[d].type = "\"object\"" => schema.required \subseteq unmarshalled[d].keys

\* SchemaCache.Get returning an entry of the map whatever the key
GetAnyEntry(c, key) ==
    IF DOMAIN c # {}
    THEN [schema |-> c[CHOOSE k \in DOMAIN c : TRUE], exists |-> TRUE]
    ELSE [schema |-> Nil, exists |-> FALSE]

\* SchemaCache.Get
Get(c, key) ==
    IF key \in DOMAIN c THEN [schema |-> c[key], exists |-> TRUE]
    ELSE [schema |-> Nil, exists |-> FALSE]

\* SchemaCache.Set evicting a single entry when the cache is at capacity
SetEvictsOne(c, key, schema) ==
    LET victim == IF Cardinality(DOMAIN c) >= maxSize /\ DOMAIN c # {}
                  THEN {CHOOSE k \in DOMAIN c : TRUE} ELSE {}
    IN [k \in (DOMAIN c \ victim) \cup {key} |-> IF k = key THEN schema ELSE c[k]]

\* SchemaCache.Set returning after the eviction, before the insertion
SetEvictWithoutInsert(c, key, schema) ==
    IF Cardinality(DOMAIN c) >= maxSize THEN <<>>
    ELSE [k \in DOMAIN c \cup {key} |-> IF k = key THEN schema ELSE c[k]]

\* the first statement of Set removing one entry of a map at capacity
EvictedOne(c) ==
    IF Cardinality(DOMAIN c) >= maxSize /\ DOMAIN c # {}
    THEN LET victim == CHOOSE k \in DOMAIN c : TRUE IN
         [k \in DOMAIN c \ {victim} |-> c[k]]
    ELSE c

\* SchemaCache.Set, first statement: at capacity the map is replaced by an
\* empty one
Evicted(c) == IF Cardinality(DOMAIN c) >= maxSize THEN <<>> ELSE c

\* SchemaCache.Set, second statement: sc.schemas[key] = schema
Inserted(c, key, schema) ==
    [k \in DOMAIN c \cup {key} |-> IF k = key THEN schema ELSE c[k]]

\* SchemaCache.Set: at capacity the whole map is replaced by an empty one
Set(c, key, schema) == Inserted(Evicted(c), key, schema)

\* SchemaCache.Size
Size(c) == Cardinality(DOMAIN c)

\* the miss path of compileSchema handing the bytes to the compiler unparsed
CompileMissUnparsed(b, who) == Compile(b, SchemaURL(CacheKey(b)), who)

\* compileSchema after a cache miss, up to the point of the store
CompileMiss(b, who) ==
    IF ~JSONValid(b) THEN [schema |-> Nil, err |-> "invalid JSON"]
    ELSE Compile(b, SchemaURL(CacheKey(b)), who)

\* compileSchema without the cache lookup
compileSchemaNoLookup(c, b, who) ==
    LET res == CompileMiss(b, who)
    IN IF res.err # ""
       THEN [cache |-> c, schema |-> Nil, err |-> res.err, hit |-> FALSE]
       ELSE [cache |-> Set(c, CacheKey(b), res.schema), schema |-> res.schema,
             err |-> "", hit |-> FALSE]

\* compileSchema storing the outcome before looking at the compile error
compileSchemaStoresFailure(c, b, who) ==
    LET got == Get(c, CacheKey(b))
        res == CompileMiss(b, who)
    IN IF got.exists /\ got.schema # Nil
       THEN [cache |-> c, schema |-> got.schema, err |-> "", hit |-> TRUE]
       ELSE [cache |-> Set(c, CacheKey(b), res.schema), schema |-> res.schema,
             err |-> res.err, hit |-> FALSE]

\* compileSchema storing the schema again on a cache hit
compileSchemaRefreshOnHit(c, b, who) ==
    LET got == Get(c, CacheKey(b))
        res == CompileMiss(b, who)
    IN IF got.exists
       THEN [cache |-> Set(c, CacheKey(b), got.schema), schema |-> got.schema,
             err |-> "", hit |-> TRUE]
       ELSE IF res.err # ""
       THEN [cache |-> c, schema |-> Nil, err |-> res.err, hit |-> FALSE]
       ELSE [cache |-> Set(c, CacheKey(b), res.schema), schema |-> res.schema,
             err |-> "", hit |-> FALSE]

\* Validator.compileSchema run without interruption on cache c
compileSchema(c, b, who) ==
    LET got == Get(c, CacheKey(b))
        res == CompileMiss(b, who)
    IN IF got.exists
       THEN [cache |-> c, schema |-> got.schema, err |-> "", hit |-> TRUE]
       ELSE IF res.err # ""
       THEN [cache |-> c, schema |-> Nil, err |-> res.err, hit |-> FALSE]
       ELSE [cache |-> Set(c, CacheKey(b), res.schema), schema |-> res.schema,
             err |-> "", hit |-> FALSE]

\* ValidateResponse reporting a payload that does not parse as a payload
\* that does not conform
CheckResponseSingleError(schema, d) ==
    IF ~JSONValid(d) \/ ~Validate(schema, d) THEN "validation failed" ELSE ""

\* Validator.ValidateResponse once the schema is compiled: parse, then validate
CheckResponse(schema, d) ==
    IF ~JSONValid(d) THEN "invalid response JSON"
    ELSE IF ~Validate(schema, d) THEN "validation failed"
    ELSE ""

\* the validator without a cache (the earlier Validator{}): its compileSchema
\* parses and compiles on every call, with the synthetic URL made of hash[:8],
\* here the first piece of the digest and the piece that begins with byte 5
compileSchemaUncached(b, who) ==
    IF ~JSONValid(b) THEN [schema |-> Nil, err |-> "invalid JSON"]
    ELSE Compile(b, <<"https://example.com/schema-", SubSeq(Sum256(b), 1, 2), ".json">>,
                 who)

\* ValidateSchema of the validator without a cache
ValidateSchemaUncached(b) ==
    LET res == compileSchemaUncached(b, 0) IN
    IF res.err # "" THEN <<"invalid schema", res.err>> ELSE <<>>

\* ValidateResponse of the validator without a cache, given the bytes d of a
\* response that parses: the schema is compiled, then schema.Validate runs
ValidateResponseUncached(b, d) ==
    LET res == compileSchemaUncached(b, 0) IN
    IF res.err # "" THEN <<"compile schema", res.err>>
    ELSE IF ~Validate(res.schema, d) THEN <<"validation failed">>
    ELSE <<>>

(***************************************************************************)
(* internal/client: LlamaServerClient.SendStructuredQuery.                 *)
(***************************************************************************)
\* what the backend does with one outbound call: the transport may fail;
\* otherwise a status, a body that may or may not decode as an LLMResponse,
\* and the contents of its choices
Upstreams ==
    {[transport |-> FALSE, status |-> 0, decodes |-> FALSE, choices |-> <<>>],
     [transport |-> TRUE, status |-> 500, decodes |-> FALSE, choices |-> <<>>],
     [transport |-> TRUE, status |-> 404, decodes |-> TRUE, choices |-> <<>>],
     [transport |-> TRUE, status |-> 201, decodes |-> TRUE, choices |-> <<P_john>>],
     [transport |-> TRUE, status |-> 200, decodes |-> FALSE, choices |-> <<>>],
     [transport |-> TRUE, status |-> 200, decodes |-> TRUE, choices |-> <<>>]}
    \cup {[transport |-> TRUE, status |-> 200, decodes |-> TRUE, choices |-> <<p>>] :
             p \in Payloads}
    \cup {[transport |-> TRUE, status |-> 200, decodes |-> TRUE,
           choices |-> <<P_nameOnly, P_john>>],
          [transport |-> TRUE, status |-> 200, decodes |-> TRUE,
           choices |-> <<P_text, P_john>>]}

\* http.StatusOK
StatusOK == 200
\* http.StatusBadRequest
StatusBadRequest == 400
\* http.StatusUnsupportedMediaType
StatusUnsupportedMediaType == 415
\* http.StatusUnprocessableEntity
StatusUnprocessableEntity == 422
\* http.StatusInternalServerError
StatusInternalServerError == 500

\* json.Marshal of a json.RawMessage field: nil is written as null, other
\* bytes must be JSON and are compacted
MarshalRaw(b) ==
    IF b = <<>> THEN [bytes |-> <<"null">>, err |-> ""]
    ELSE IF ~JSONValid(b) THEN [bytes |-> <<>>, err |-> "json: error calling MarshalJSON"]
    ELSE [bytes |-> AppendCompact(b), err |-> ""]

\* the LLMRequest built from the arguments and json.Marshal of it: the
\* messages in their order, response_format json_schema named "response",
\* strict, and the schema member as json.Marshal writes a RawMessage
MarshalRequest(messages, schema) ==
    LET m == MarshalRaw(schema) IN
    [body |-> [messages |-> messages,
               response_format |-> [type |-> "json_schema",
                                    json_schema |-> [name |-> "response",
                                                     strict |-> TRUE,
                                                     schema |-> m.bytes]]],
     err |-> m.err]

\* fmt.Errorf("LLM server returned status %d", resp.StatusCode)
StatusError(status) == "LLM server returned status " \o ToString(status)

\* SendStructuredQuery without the check that the content parses as JSON
SendStructuredQueryUnparsed(u, messages, schema) ==
    IF MarshalRequest(messages, schema).err # ""
    THEN [data |-> Nil, err |-> "marshal request"]
    ELSE IF ~u.transport THEN [data |-> Nil, err |-> "http request"]
    ELSE IF u.status # StatusOK THEN [data |-> Nil, err |-> StatusError(u.status)]
    ELSE IF ~u.decodes THEN [data |-> Nil, err |-> "decode response"]
    ELSE IF Len(u.choices) = 0 THEN [data |-> Nil, err |-> "no response choices"]
    ELSE [data |-> u.choices[1], err |-> ""]

\* SendStructuredQuery taking only a 5xx status for a failure of the backend
SendStructuredQueryOnly5xx(u, messages, schema) ==
    IF MarshalRequest(messages, schema).err # ""
    THEN [data |-> Nil, err |-> "marshal request"]
    ELSE IF ~u.transport THEN [data |-> Nil, err |-> "http request"]
    ELSE IF u.status >= 500 THEN [data |-> Nil, err |-> StatusError(u.status)]
    ELSE IF ~u.decodes THEN [data |-> Nil, err |-> "decode response"]
    ELSE IF Len(u.choices) = 0 THEN [data |-> Nil, err |-> "no response choices"]
    ELSE IF ~JSONValid(u.choices[1])
    THEN [data |-> Nil, err |-> "LLM response is not valid JSON"]
    ELSE [data |-> u.choices[1], err |-> ""]

\* SendStructuredQuery returning an empty payload when the envelope has no
\* choice
SendStructuredQueryNoChoiceCheck(u, messages, schema) ==
    IF MarshalRequest(messages, schema).err # ""
    THEN [data |-> Nil, err |-> "marshal request"]
    ELSE IF ~u.transport THEN [data |-> Nil, err |-> "http request"]
    ELSE IF u.status # StatusOK THEN [data |-> Nil, err |-> StatusError(u.status)]
    ELSE IF ~u.decodes THEN [data |-> Nil, err |-> "decode response"]
    ELSE IF Len(u.choices) = 0 THEN [data |-> <<>>, err |-> ""]
    ELSE IF ~JSONValid(u.choices[1])
    THEN [data |-> Nil, err |-> "LLM response is not valid JSON"]
    ELSE [data |-> u.choices[1], err |-> ""]

\* SendStructuredQuery checking the content against the schema itself
SendStructuredQueryValidating(u, messages, schema) ==
    IF MarshalRequest(messages, schema).err # ""
    THEN [data |-> Nil, err |-> "marshal request"]
    ELSE IF ~u.transport THEN [data |-> Nil, err |-> "http request"]
    ELSE IF u.status # StatusOK THEN [data |-> Nil, err |-> StatusError(u.status)]
    ELSE IF ~u.decodes THEN [data |-> Nil, err |-> "decode response"]
    ELSE IF Len(u.choices) = 0 THEN [data |-> Nil, err |-> "no response choices"]
    ELSE IF ~JSONValid(u.choices[1])
    THEN [data |-> Nil, err |-> "LLM response is not valid JSON"]
    ELSE IF CheckResponse(CompileMiss(schema, 0).schema, u.choices[1]) # ""
    THEN [data |-> Nil, err |-> "LLM response does not match the schema"]
    ELSE [data |-> u.choices[1], err |-> ""]

\* SendStructuredQuery taking the content of the last choice
SendStructuredQueryLastChoice(u, messages, schema) ==
    IF MarshalRequest(messages, schema).err # ""
    THEN [data |-> Nil, err |-> "marshal request"]
    ELSE IF ~u.transport THEN [data |-> Nil, err |-> "http request"]
    ELSE IF u.status # StatusOK THEN [data |-> Nil, err |-> StatusError(u.status)]
    ELSE IF ~u.decodes THEN [data |-> Nil, err |-> "decode response"]
    ELSE IF Len(u.choices) = 0 THEN [data |-> Nil, err |-> "no response choices"]
    ELSE IF ~JSONValid(u.choices[Len(u.choices)])
    THEN [data |-> Nil, err |-> "LLM response is not valid JSON"]
    ELSE [data |-> u.choices[Len(u.choices)], err |-> ""]

\* SendStructuredQuery(ctx, messages, schema) against backend behaviour u
SendStructuredQuery(u, messages, schema) ==
    IF MarshalRequest(messages, schema).err # ""
    THEN [data |-> Nil, err |-> "marshal request"]
    ELSE IF ~u.transport THEN [data |-> Nil, err |-> "http request"]
    ELSE IF u.status # StatusOK THEN [data |-> Nil, err |-> StatusError(u.status)]
    ELSE IF ~u.decodes THEN [data |-> Nil, err |-> "decode response"]
    ELSE IF Len(u.choices) = 0 THEN [data |-> Nil, err |-> "no response choices"]
    ELSE IF ~JSONValid(u.choices[1])
    THEN [data |-> Nil, err |-> "LLM response is not valid JSON"]
    ELSE [data |-> u.choices[1], err |-> ""]

\* the body handed to c.client.Do by SendStructuredQuery, Nil when the
\* request could not be marshalled and nothing was sent
Outbound(messages, schema) ==
    LET m == MarshalRequest(messages, schema) IN
    IF m.err # "" THEN Nil ELSE m.body

(***************************************************************************)
(* pkg/types and internal/server: envelopes and the response writer.       *)
(***************************************************************************)
ErrorCodeInvalidRequest == "INVALID_REQUEST"
ErrorCodeInvalidSchema == "INVALID_SCHEMA"
ErrorCodeLLMError == "LLM_ERROR"
ErrorCodeValidationFailed == "VALIDATION_FAILED"
ErrorCodeInternalError == "INTERNAL_ERROR"
ErrorCodeTimeout == "TIMEOUT"

\* the conversation of a request
Conversation == <<[role |-> "system", content |-> "Reply in JSON"],
                  [role |-> "user", content |-> "Tell me about John"]>>

\* request bodies: shape says whether the bytes around the schema value form
\* the JSON envelope {"schema": ..., "messages": [...]}
Bodies ==
    {[shape |-> FALSE, schema |-> S_none, messages |-> <<>>]}
    \cup {[shape |-> TRUE, schema |-> s, messages |-> Conversation] : s \in Schemas}

\* json.NewDecoder(r.Body).Decode(&req): the body must be JSON as a whole; the
\* schema member is kept as the bytes it was written with
Decode(b) ==
    IF ~b.shape \/ (b.schema # <<>> /\ ~JSONValid(b.schema))
    THEN [req |-> Nil, err |-> "invalid character"]
    ELSE [req |-> [schema |-> b.schema, messages |-> b.messages], err |-> ""]

\* a response writer nothing was written to
NoResponse == [status |-> 0, body |-> <<>>]

\* w.WriteHeader(status) followed by one body write: the first status sent
\* stays, every body written is appended
Write(wr, status, chunk) ==
    [status |-> IF wr.status = 0 THEN status ELSE wr.status,
     body |-> Append(wr.body, chunk)]

\* types.NewErrorResponse(code, message, details)
NewErrorResponse(code, message, details) ==
    [kind |-> "envelope", error |-> "error", message |-> message, code |-> code,
     details |-> details, request_id |-> ""]

\* ErrorResponse.WithRequestID
WithRequestID(e, requestID) == [e EXCEPT !.request_id = requestID]

\* types.NewValidationError(message, details, responseData)
NewValidationError(message, details, responseData) ==
    [kind |-> "envelope", error |-> "validation_error", message |-> message,
     code |-> ErrorCodeValidationFailed, details |-> details,
     response |-> responseData, request_id |-> ""]

\* Server.writeErrorResponse
writeErrorResponse(wr, status, code, message, details, requestID) ==
    Write(wr, status, WithRequestID(NewErrorResponse(code, message, details), requestID))

\* Server.writeValidationError: json.NewEncoder(w).Encode(validationErr) writes
\* the response member through MarshalRaw; when that fails nothing is written
\* after the header
writeValidationError(wr, message, details, responseData, requestID) ==
    LET m == MarshalRaw(responseData)
        e == NewValidationError(message, details, m.bytes)
    IN
    IF m.err # ""
    THEN [status |-> IF wr.status = 0 THEN StatusUnprocessableEntity ELSE wr.status,
          body |-> wr.body]
    ELSE Write(wr, StatusUnprocessableEntity,
               IF requestID # "" THEN [e EXCEPT !.request_id = requestID] ELSE e)

\* json.NewEncoder(w).Encode(response.Data) on the success path: the raw
\* message is compacted and HTML-escaped by the encoder and a newline follows;
\* the first write sends status 200
writeSuccess(wr, data) ==
    LET m == MarshalRaw(data) IN
    IF m.err # "" THEN [status |-> IF wr.status = 0 THEN StatusOK ELSE wr.status,
                        body |-> wr.body]
    ELSE Write(wr, StatusOK, [kind |-> "raw", bytes |-> m.bytes \o <<"\n">>])

NoCalls == [validateSchema |-> 0, dispatch |-> 0, validateResponse |-> 0]

\* a request that has not called the validator or the client
NoArgs == [validateSchema |-> Nil, dispatch |-> Nil, validateResponse |-> Nil]

\* Server.generateRequestID: eight random bytes in hex, here the ones drawn
\* for the request in slot r
generateRequestID(r) == IF r = 1 THEN "9f86d081884c7d65" ELSE "3a7bd3e2360a3d29"

\* a request that did not come through the middleware chain: no request id
\* in its context, no X-Request-ID response header, no deadline passed, no
\* panic recovered
NoMiddleware ==
    [inbound |-> "", id |-> "", header |-> "", expired |-> FALSE, panicked |-> FALSE]

\* the X-Request-ID header of an inbound request: absent, or the client's id
Headers == {"", "client-7"}

\* the methods and the Content-Type headers of inbound requests
Methods == {"GET", "POST", "PUT", "PATCH", "OPTIONS"}
ContentTypes == {"", "application/json", "text/plain"}

\* the inbound requests of the model
Inbound == [method : Methods, contentType : ContentTypes, requestID : Headers]

\* middleware.ContentType("application/json") in main.go
RequiredTypes == {"application/json"}

\* the digits of strconv.FormatInt
Digits ==
    <<"0", "1", "2", "3", "4", "5", "6", "7", "8", "9", "a", "b", "c", "d", "e", "f",
      "g", "h", "i", "j", "k", "l", "m", "n", "o", "p", "q", "r", "s", "t", "u", "v",
      "w", "x", "y", "z">>

RECURSIVE FormatInt(_, _)
\* strconv.FormatInt(n, base) of n >= 0
FormatInt(n, base) ==
    IF n < base THEN Digits[n + 1]
    ELSE FormatInt(n \div base, base) \o Digits[(n % base) + 1]

\* middleware.generateRequestID when the clock reads t:
\* strconv.FormatInt(time.Now().UnixNano(), 36)
middlewareRequestID(t) == FormatInt(t, 36)

\* the context of a request before any middleware has added to it
NoContext == [id |-> "", logger |-> "", start |-> 0, deadline |-> FALSE, done |-> FALSE]

\* a connection on which no request is being served: in is the inbound
\* request, ctx the context the innermost layer reached has made, header the
\* response headers set, w the response writer, hw what the wrapped handler
\* itself wrote, reached the layers entered, logs the records logged
NoExchange ==
    [at |-> "idle", in |-> Nil, ctx |-> NoContext, header |-> {}, w |-> NoResponse,
     hw |-> NoResponse, reached |-> {}, logs |-> <<>>, panicked |-> FALSE]

\* an exchange that begins with the inbound request in
Exchange(in) == [NoExchange EXCEPT !.in = in]

\* http.Error(w, text, code): the status, if none was sent yet, and the text
Error(wr, text, code) == Write(wr, code, [kind |-> "text", bytes |-> <<text, "\n">>])

\* w.Header().Get(name) of the response, "" when the header is not set
HeaderOf(x, name) ==
    IF \E h \in x.header : h[1] = name
    THEN (CHOOSE h \in x.header : h[1] = name)[2]
    ELSE ""

\* Recovery logging the panic and leaving the response as it is
RecoveryLogOnly(x) ==
    [x EXCEPT !.logs = Append(@, [by |-> "recovery_middleware", logger |-> "",
                                  msg |-> "Panic recovered in HTTP handler"]),
              !.panicked = TRUE]

\* middleware.Recovery, the deferred function after a panic of the wrapped
\* handler: recover() ends the panic, one record is logged (the request of
\* this layer has no logger in its context, so with the base logger) and
\* http.Error answers 500
Recovery(x) ==
    [x EXCEPT !.logs = Append(@, [by |-> "recovery_middleware", logger |-> "",
                                  msg |-> "Panic recovered in HTTP handler"]),
              !.w = Error(@, "Internal Server Error", StatusInternalServerError),
              !.panicked = TRUE]

\* the headers middleware.CORS sets
CORSHeaders ==
    {<<"Access-Control-Allow-Origin", "*">>,
     <<"Access-Control-Allow-Methods", "GET, POST, PUT, DELETE, OPTIONS">>,
     <<"Access-Control-Allow-Headers", "Accept, Content-Type, X-Request-ID">>}

\* w.WriteHeader(status) with no body written
WriteHeader(wr, status) == [wr EXCEPT !.status = IF @ = 0 THEN status ELSE @]

\* middleware.CORS: the headers are set; an OPTIONS request is answered 200
\* and the next handler is not called
CORS(x) ==
    LET y == [x EXCEPT !.header = @ \cup CORSHeaders, !.reached = @ \cup {"CORS"}] IN
    IF x.in.method = "OPTIONS"
    THEN [y EXCEPT !.w = WriteHeader(@, StatusOK), !.at = "returned"]
    ELSE y

\* RequestTimeout handing the context on as it came
RequestTimeoutNoDeadline(x) == [x EXCEPT !.reached = @ \cup {"RequestTimeout"}]

\* middleware.RequestTimeout: the next handler sees a context with a deadline
RequestTimeout(x) ==
    [x EXCEPT !.ctx.deadline = TRUE, !.reached = @ \cup {"RequestTimeout"}]

\* ContentType checking the Content-Type of every method
ContentTypeAnyMethod(x) ==
    LET y == [x EXCEPT !.reached = @ \cup {"ContentType"}] IN
    IF x.in.contentType \notin RequiredTypes
    THEN [y EXCEPT !.w = Error(@, "Unsupported Media Type", StatusUnsupportedMediaType),
                   !.at = "returned"]
    ELSE y

\* middleware.ContentType: a POST, PUT or PATCH whose Content-Type is none of
\* the required types is answered 415 and the next handler is not called; the
\* warning is logged only with a logger from the context
ContentType(x) ==
    LET y == [x EXCEPT !.reached = @ \cup {"ContentType"}] IN
    IF x.in.method \in {"POST", "PUT", "PATCH"} /\ x.in.contentType \notin RequiredTypes
    THEN [y EXCEPT !.w = Error(@, "Unsupported Media Type", StatusUnsupportedMediaType),
                   !.logs = IF x.ctx.logger # ""
                            THEN Append(@, [by |-> "content_type_middleware",
                                            logger |-> x.ctx.logger,
                                            msg |-> "Invalid content type"])
                            ELSE @,
                   !.at = "returned"]
    ELSE y

\* RequestLogging generating an id whether or not the request brought one
RequestLoggingOwnID(x, t) ==
    LET requestID == middlewareRequestID(t) IN
    [x EXCEPT !.ctx.id = requestID, !.ctx.logger = requestID, !.ctx.start = t,
              !.logs = Append(@, [by |-> "http_server", logger |-> requestID,
                                  msg |-> "HTTP request started"]),
              !.header = @ \cup {<<"X-Request-ID",
                                   IF x.in.requestID # "" THEN x.in.requestID
                                   ELSE requestID>>},
              !.reached = @ \cup {"RequestLogging", "next"},
              !.at = "next"]

\* middleware.RequestLogging up to the call of the next handler, the clock
\* reading t: the request id is the inbound header or a generated one; the
\* id, a logger scoped to it and the start time are put into the context, the
\* request is logged, the id is set as X-Request-ID of the response
RequestLogging(x, t) ==
    LET requestID == IF x.in.requestID # "" THEN x.in.requestID
                     ELSE middlewareRequestID(t)
    IN
    [x EXCEPT !.ctx.id = requestID, !.ctx.logger = requestID, !.ctx.start = t,
              !.logs = Append(@, [by |-> "http_server", logger |-> requestID,
                                  msg |-> "HTTP request started"]),
              !.header = @ \cup {<<"X-Request-ID", requestID>>},
              !.reached = @ \cup {"RequestLogging", "next"},
              !.at = "next"]

\* the chain composed with ContentType outermost: ContentType, Recovery,
\* CORS, RequestTimeout, RequestLogging
ChainContentTypeFirst(x, t) ==
    LET a == ContentType(x)
        b == IF a.at = "returned" THEN a
             ELSE CORS([a EXCEPT !.reached = @ \cup {"Recovery"}])
        c == IF b.at = "returned" THEN b ELSE RequestTimeout(b)
    IN IF c.at = "returned" THEN c ELSE RequestLogging(c, t)

\* the chain of main.go on the way in, outermost first: Recovery registers
\* its deferred function, then CORS, RequestTimeout, ContentType and
\* RequestLogging run unless a layer answers without calling the next
Chain(x, t) ==
    LET a == CORS([x EXCEPT !.reached = @ \cup {"Recovery"}])
        b == IF a.at = "returned" THEN a ELSE RequestTimeout(a)
        c == IF b.at = "returned" THEN b ELSE ContentType(b)
    IN IF c.at = "returned" THEN c ELSE RequestLogging(c, t)

\* the chain on the way out after the handler returned: RequestLogging logs
\* the response, the deferred cancel of RequestTimeout runs
Returned(x) ==
    [x EXCEPT !.logs = Append(@, [by |-> "http_server", logger |-> x.ctx.logger,
                                  msg |-> "HTTP request completed"]),
              !.ctx.done = TRUE,
              !.at = "returned"]

\* the chain on the way out after the handler panicked: RequestLogging is
\* unwound without logging, the deferred cancel of RequestTimeout runs, the
\* deferred function of Recovery recovers
Panicked(x) == Recovery([x EXCEPT !.ctx.done = TRUE, !.at = "returned"])

\* what the pipeline handler behind the chain sees of an exchange
ChainContext(x) ==
    [inbound |-> x.in.requestID, id |-> x.ctx.id, header |-> HeaderOf(x, "X-Request-ID"),
     expired |-> FALSE, panicked |-> FALSE]

\* middleware.GetRequestID(ctx)
GetRequestID(ctx) == ctx.id

\* LLM_RETRY_ATTEMPTS as configurations set it
RetryAttempts == {0, 3}

\* the sync.RWMutex nobody holds
Unlocked == [readers |-> {}, writer |-> 0, waiting |-> {}]

\* the goroutines that call the cache directly
Threads == {1, 2, 3}

\* a goroutine not inside a cache call
Idle == [at |-> "idle", op |-> "", doc |-> <<>>, seen |-> Nil]

\* the reading of the wall clock when the server starts
Epoch == 1700

\* NewServer / NewValidatorWithCacheSize: an empty cache, no request in flight
Init ==
    /\ schemas = <<>>
    /\ pc = [r \in Requests |-> "idle"]
    /\ req = [r \in Requests |-> Nil]
    /\ compiled = [r \in Requests |-> Nil]
    /\ upstream = [r \in Requests |-> Nil]
    /\ outbound = [r \in Requests |-> Nil]
    /\ response = [r \in Requests |-> Nil]
    /\ w = [r \in Requests |-> NoResponse]
    /\ trail = [r \in Requests |-> <<>>]
    /\ calls = [r \in Requests |-> NoCalls]
    /\ args = [r \in Requests |-> NoArgs]
    /\ attempts = [r \in Requests |-> 0]
    /\ rid = [r \in Requests |-> ""]
    /\ mw = [r \in Requests |-> NoMiddleware]
    /\ last = Nil
    /\ nSets = 0
    /\ maxSize = MaxSize
    /\ mu = Unlocked
    /\ th = [g \in Threads |-> Idle]
    /\ exch = [r \in Requests |-> NoExchange]
    /\ now = Epoch

(***************************************************************************)
(* Server.handleValidatedQuery, one action per step that other requests    *)
(* can interleave with: the cache is read under RLock (Get) and written    *)
(* under Lock (Set); compilation happens between the two, outside the lock.*)
(***************************************************************************)
\* Goto with the return after the INVALID_SCHEMA response left out
GotoNoReturnOnInvalidSchema(at, failed) ==
    CASE at = "decode"           -> IF failed THEN "done" ELSE "validateSchema"
      [] at = "validateSchema"   -> "dispatch"
      [] at = "dispatch"         -> IF failed THEN "done" ELSE "validateResponse"
      [] at = "validateResponse" -> "done"

\* Goto with the return after the LLM_ERROR response left out
GotoNoReturnOnLLMError(at, failed) ==
    CASE at = "decode"           -> IF failed THEN "done" ELSE "validateSchema"
      [] at = "validateSchema"   -> IF failed THEN "done" ELSE "dispatch"
      [] at = "dispatch"         -> "validateResponse"
      [] at = "validateResponse" -> "done"

\* Goto with the return after the INVALID_REQUEST response left out
GotoNoReturnOnInvalidRequest(at, failed) ==
    CASE at = "decode"           -> "validateSchema"
      [] at = "validateSchema"   -> IF failed THEN "done" ELSE "dispatch"
      [] at = "dispatch"         -> IF failed THEN "done" ELSE "validateResponse"
      [] at = "validateResponse" -> "done"

\* the control flow of handleValidatedQuery: where the handler goes after
\* step at, given whether the step returned an error
Goto(at, failed) ==
    CASE at = "decode"           -> IF failed THEN "done" ELSE "validateSchema"
      [] at = "validateSchema"   -> IF failed THEN "done" ELSE "dispatch"
      [] at = "dispatch"         -> IF failed THEN "done" ELSE "validateResponse"
      [] at = "validateResponse" -> "done"

\* the handler's requestID when the id of the middleware is ignored
HandlerRequestIDGenerated(r) == generateRequestID(r)

\* the handler's requestID: the one the middleware put into the context,
\* or else a generated one
HandlerRequestID(r) ==
    IF GetRequestID(mw[r]) # "" THEN GetRequestID(mw[r]) ELSE generateRequestID(r)

\* the request arrives and its body is decoded (server.go:41-46)
Receive(r, b) ==
    LET dec == Decode(b)
        requestID == HandlerRequestID(r)
    IN
    /\ pc[r] = "idle"
    /\ rid' = [rid EXCEPT ![r] = requestID]
    /\ pc' = [pc EXCEPT ![r] = Goto("decode", dec.err # "")]
    /\ req' = [req EXCEPT ![r] = dec.req]
    /\ IF dec.err # ""
       THEN /\ w' = [w EXCEPT ![r] = writeErrorResponse(@, StatusBadRequest,
                         ErrorCodeInvalidRequest, "Invalid request body", <<dec.err>>,
                         requestID)]
            /\ trail' = [trail EXCEPT ![r] = <<"Received", "Failed(InvalidRequest)">>]
       ELSE /\ w' = w
            /\ trail' = [trail EXCEPT ![r] = <<"Received">>]
    /\ UNCHANGED <<schemas, compiled, upstream, outbound, response, calls, args, attempts, mw,
                   unitVars, cacheVars, chainVars>>

\* the handler's answer to ValidateSchema returning err (server.go:48-52)
AfterValidateSchema(r, err) ==
    /\ pc' = [pc EXCEPT ![r] = Goto("validateSchema", err # <<>>)]
    /\ IF err # <<>>
       THEN /\ w' = [w EXCEPT ![r] = writeErrorResponse(@, StatusBadRequest,
                         ErrorCodeInvalidSchema, "Invalid JSON schema", err, rid[r])]
            /\ trail' = [trail EXCEPT ![r] = Append(@, "Failed(InvalidSchema)")]
       ELSE /\ w' = w
            /\ trail' = [trail EXCEPT ![r] = Append(@, "SchemaChecked")]

\* ValidateSchema: compileSchema looks the key up; a hit returns, a miss
\* parses and compiles and, when that fails, returns the error
ValidateSchemaLookup(r) ==
    LET b == req[r].schema
        got == Get(schemas, CacheKey(b))
        res == CompileMiss(b, r)
    IN
    /\ pc[r] = "validateSchema"
    /\ calls' = [calls EXCEPT ![r].validateSchema = @ + 1]
    /\ args' = [args EXCEPT ![r].validateSchema = b]
    /\ IF got.exists
       THEN AfterValidateSchema(r, <<>>) /\ compiled' = compiled
       ELSE IF res.err # ""
       THEN AfterValidateSchema(r, <<"invalid schema", res.err>>) /\ compiled' = compiled
       ELSE /\ pc' = [pc EXCEPT ![r] = "vsStore"]
            /\ compiled' = [compiled EXCEPT ![r] = res.schema]
            /\ UNCHANGED <<w, trail>>
    /\ UNCHANGED <<schemas, req, upstream, outbound, response, attempts, rid, mw,
                   unitVars, cacheVars, chainVars>>

\* ValidateSchema: compileSchema stores the compiled schema and returns
ValidateSchemaStore(r) ==
    /\ pc[r] = "vsStore"
    /\ schemas' = Set(schemas, CacheKey(req[r].schema), compiled[r])
    /\ compiled' = [compiled EXCEPT ![r] = Nil]
    /\ AfterValidateSchema(r, <<>>)
    /\ UNCHANGED <<req, upstream, outbound, response, calls, args, attempts, rid, mw,
                   unitVars, cacheVars, chainVars>>

\* HTTPAttempts with the configured retries made after a failed attempt
HTTPAttemptsWithRetry(u, schema, retry) ==
    IF MarshalRaw(schema).err # "" THEN 0
    ELSE IF ~u.transport \/ u.status # StatusOK THEN 1 + retry
    ELSE 1

\* the calls of c.client.Do one SendStructuredQuery makes: one, unless the
\* request could not be marshalled; the retry configuration never reaches
\* the client
HTTPAttempts(u, schema, retry) ==
    IF MarshalRaw(schema).err # "" THEN 0 ELSE 1

\* the handler calling the client with the messages newest first and the
\* schema re-serialised
DispatchArgumentsRewritten(r) ==
    [messages |-> [i \in 1..Len(req[r].messages) |->
                      req[r].messages[Len(req[r].messages) + 1 - i]],
     schema |-> AppendCompact(req[r].schema)]

\* the arguments of s.llmClient.SendStructuredQuery(r.Context(), req.Messages,
\* req.Schema)
DispatchArguments(r) == [messages |-> req[r].messages, schema |-> req[r].schema]

\* SendStructuredQuery is called and returns (server.go:54-59); a context
\* whose deadline has passed fails the HTTP request
Dispatch(r, u) ==
    LET a == DispatchArguments(r)
        out == SendStructuredQuery(u, a.messages, a.schema)
    IN
    /\ pc[r] = "dispatch"
    /\ mw[r].expired => ~u.transport
    /\ calls' = [calls EXCEPT ![r].dispatch = @ + 1]
    /\ args' = [args EXCEPT ![r].dispatch = a]
    /\ \E retry \in RetryAttempts :
          attempts' = [attempts EXCEPT ![r] = @ + HTTPAttempts(u, a.schema, retry)]
    /\ pc' = [pc EXCEPT ![r] = Goto("dispatch", out.err # "")]
    /\ upstream' = [upstream EXCEPT ![r] = u]
    /\ outbound' = [outbound EXCEPT ![r] = Outbound(a.messages, a.schema)]
    /\ response' = [response EXCEPT ![r] = out]
    /\ IF out.err # ""
       THEN /\ w' = [w EXCEPT ![r] = writeErrorResponse(@, StatusInternalServerError,
                         ErrorCodeLLMError, "LLM service error", <<out.err>>, rid[r])]
            /\ trail' = [trail EXCEPT ![r] = Append(@, "Failed(UpstreamError)")]
       ELSE /\ w' = w
            /\ trail' = [trail EXCEPT ![r] = Append(@, "Dispatched")]
    /\ UNCHANGED <<schemas, req, compiled, rid, mw, unitVars, cacheVars, chainVars>>

\* the handler's answer to ValidateResponse returning err (server.go:61-67)
AfterValidateResponse(r, err) ==
    /\ pc' = [pc EXCEPT ![r] = Goto("validateResponse", err # <<>>)]
    /\ IF err # <<>>
       THEN /\ w' = [w EXCEPT ![r] = writeValidationError(@,
                         "Schema validation failed", err, response[r].data, rid[r])]
            /\ trail' = [trail EXCEPT ![r] = Append(@, "Failed(ValidationFailed)")]
       ELSE /\ w' = [w EXCEPT ![r] = writeSuccess(@, response[r].data)]
            /\ trail' = [trail EXCEPT ![r] = @ \o <<"ResponseChecked", "Completed">>]

\* Checked with the call of schema.Validate left out
CheckedWithoutValidate(schema, d) ==
    IF ~JSONValid(d) THEN <<"invalid response JSON">> ELSE <<>>

\* ValidateResponse with the compiled schema in hand: parse and validate
Checked(schema, d) ==
    LET e == CheckResponse(schema, d) IN IF e = "" THEN <<>> ELSE <<e>>

\* ValidateResponse: compileSchema looks the key up; on a hit the payload is
\* parsed and validated at once
ValidateResponseLookup(r) ==
    LET b == req[r].schema
        got == Get(schemas, CacheKey(b))
        res == CompileMiss(b, r)
    IN
    /\ pc[r] = "validateResponse"
    /\ calls' = [calls EXCEPT ![r].validateResponse = @ + 1]
    /\ args' = [args EXCEPT ![r].validateResponse = [schema |-> b, data |-> response[r].data]]
    /\ IF got.exists
       THEN AfterValidateResponse(r, Checked(got.schema, response[r].data))
            /\ compiled' = compiled
       ELSE IF res.err # ""
       THEN AfterValidateResponse(r, <<"compile schema", res.err>>)
            /\ compiled' = compiled
       ELSE /\ pc' = [pc EXCEPT ![r] = "vrStore"]
            /\ compiled' = [compiled EXCEPT ![r] = res.schema]
            /\ UNCHANGED <<w, trail>>
    /\ UNCHANGED <<schemas, req, upstream, outbound, response, attempts, rid, mw,
                   unitVars, cacheVars, chainVars>>

\* ValidateResponse: compileSchema stores the compiled schema; the payload is
\* then parsed and validated against it
ValidateResponseStore(r) ==
    /\ pc[r] = "vrStore"
    /\ schemas' = Set(schemas, CacheKey(req[r].schema), compiled[r])
    /\ compiled' = [compiled EXCEPT ![r] = Nil]
    /\ AfterValidateResponse(r, Checked(compiled[r], response[r].data))
    /\ UNCHANGED <<req, upstream, outbound, response, calls, args, attempts, rid, mw,
                   unitVars, cacheVars, chainVars>>

\* the handler has returned and the response is sent: the goroutine ends
\* and the server is free to take another request
Close(r) ==
    /\ pc[r] = "done"
    /\ pc' = [pc EXCEPT ![r] = "idle"]
    /\ req' = [req EXCEPT ![r] = Nil]
    /\ compiled' = [compiled EXCEPT ![r] = Nil]
    /\ upstream' = [upstream EXCEPT ![r] = Nil]
    /\ outbound' = [outbound EXCEPT ![r] = Nil]
    /\ response' = [response EXCEPT ![r] = Nil]
    /\ w' = [w EXCEPT ![r] = NoResponse]
    /\ trail' = [trail EXCEPT ![r] = <<>>]
    /\ calls' = [calls EXCEPT ![r] = NoCalls]
    /\ args' = [args EXCEPT ![r] = NoArgs]
    /\ attempts' = [attempts EXCEPT ![r] = 0]
    /\ rid' = [rid EXCEPT ![r] = ""]
    /\ mw' = [mw EXCEPT ![r] = NoMiddleware]
    /\ UNCHANGED <<schemas, unitVars, cacheVars, chainVars>>

Next ==
    \E r \in Requests :
        \/ \E b \in Bodies : Receive(r, b)
        \/ ValidateSchemaLookup(r)
        \/ ValidateSchemaStore(r)
        \/ \E u \in Upstreams : Dispatch(r, u)
        \/ ValidateResponseLookup(r)
        \/ ValidateResponseStore(r)
        \/ Close(r)

\* the server: requests handled concurrently around one shared cache
Spec == Init /\ [][Next]_vars

(***************************************************************************)
(* The handler behind the middleware chain of cmd/server/main.go:          *)
(* Recovery > CORS > RequestTimeout > ContentType > RequestLogging.        *)
(* Requests are sent one after the other, so the schema that ValidateSchema *)
(* stored is still cached when ValidateResponse looks it up: the store step *)
(* of ValidateResponse belongs to concurrent requests (Spec).               *)
(***************************************************************************)
\* the wall clock advances
Tick ==
    /\ now < Epoch + MaxTicks
    /\ now' = now + 1
    /\ UNCHANGED <<schemas, serverVars, unitVars, cacheVars, exch>>

\* a POST of application/json with X-Request-ID header h passes the chain
\* down to the handler (route POST /v1/validated-query)
Arrive(r, h) ==
    /\ \A q \in Requests : pc[q] = "idle" /\ mw[q] = NoMiddleware
    /\ mw' = [mw EXCEPT ![r] = ChainContext(Chain(Exchange(
                  [method |-> "POST", contentType |-> "application/json",
                   requestID |-> h]), now))]
    /\ UNCHANGED <<schemas, pc, req, compiled, upstream, outbound, response, w, trail, calls, args,
                   attempts, rid, unitVars, cacheVars, chainVars>>

\* the handler is entered with the context the chain made
Serve(r, b) ==
    /\ mw[r].id # ""
    /\ Receive(r, b)

\* RequestTimeout: the deadline of the request's context passes while the
\* handler runs
Expire(r) ==
    /\ mw[r].id # "" /\ pc[r] # "done"
    /\ ~mw[r].expired
    /\ mw' = [mw EXCEPT ![r].expired = TRUE]
    /\ UNCHANGED <<schemas, pc, req, compiled, upstream, outbound, response, w, trail, calls, args,
                   attempts, rid, unitVars, cacheVars, chainVars>>

\* Recovery: the handler panics and the deferred function answers with
\* http.Error(w, "Internal Server Error", 500), a text body
Panic(r) ==
    /\ mw[r].id # "" /\ pc[r] \notin {"idle", "done"}
    /\ mw' = [mw EXCEPT ![r].panicked = TRUE]
    /\ w' = [w EXCEPT ![r] = Write(@, StatusInternalServerError,
                  [kind |-> "text", bytes |-> <<"Internal Server Error", "\n">>])]
    /\ pc' = [pc EXCEPT ![r] = "done"]
    /\ trail' = [trail EXCEPT ![r] = Append(@, "Failed(InternalError)")]
    /\ UNCHANGED <<schemas, req, compiled, upstream, outbound, response, calls, args, attempts, rid,
                   unitVars, cacheVars, chainVars>>

NextChain ==
    \/ Tick
    \/ \E r \in Requests :
          \/ \E h \in Headers : Arrive(r, h)
          \/ \E b \in Bodies : Serve(r, b)
          \/ ValidateSchemaLookup(r)
          \/ ValidateSchemaStore(r)
          \/ \E u \in Upstreams : Dispatch(r, u)
          \/ ValidateResponseLookup(r)
          \/ Expire(r)
          \/ Panic(r)
          \/ Close(r)

SpecChain == Init /\ [][NextChain]_vars

(***************************************************************************)
(* The validator called from one goroutine, one call after the other, as   *)
(* the validator's unit tests do (TestValidatorCaching, TestCacheEviction). *)
(***************************************************************************)
\* whether a compileSchema run stored its result
Stored(out) == ~out.hit /\ out.err = ""

\* the record of one call: what went in, what came out, the occupancy
\* (cache.Size()) before and after and, when the call before it was made with
\* byte-identical schema content, that call's occupancy before, compiled
\* schema, error and whether it was a hit
CallRecord(op, b, d, out, err) ==
    [op |-> op, schema |-> b, data |-> d, err |-> err, hit |-> out.hit,
     compiled |-> out.schema, before |-> Size(schemas), after |-> Size(out.cache),
     prev |-> IF last # Nil /\ last.schema = b
              THEN [before |-> last.before, compiled |-> last.compiled,
                    err |-> last.err, hit |-> last.hit]
              ELSE Nil]

\* Validator.ValidateSchema(schemaBytes)
ValidateSchema(b) ==
    /\ Stored(compileSchema(schemas, b, nSets + 1)) => nSets < MaxSets
    /\ LET out == compileSchema(schemas, b, nSets + 1)
           err == IF out.err # "" THEN <<"invalid schema", out.err>> ELSE <<>>
       IN /\ schemas' = out.cache
          /\ nSets' = IF Stored(out) THEN nSets + 1 ELSE nSets
          /\ last' = CallRecord("ValidateSchema", b, <<>>, out, err)
    /\ UNCHANGED <<serverVars, cacheVars, chainVars>>

\* Validator.ValidateResponse(schemaBytes, response)
ValidateResponse(b, d) ==
    /\ Stored(compileSchema(schemas, b, nSets + 1)) => nSets < MaxSets
    /\ LET out == compileSchema(schemas, b, nSets + 1)
           err == IF out.err # "" THEN <<"compile schema", out.err>>
                  ELSE Checked(out.schema, d)
       IN /\ schemas' = out.cache
          /\ nSets' = IF Stored(out) THEN nSets + 1 ELSE nSets
          /\ last' = CallRecord("ValidateResponse", b, d, out, err)
    /\ UNCHANGED <<serverVars, cacheVars, chainVars>>

NextValidator ==
    \E b \in Schemas :
        \/ ValidateSchema(b)
        \/ \E d \in Payloads : ValidateResponse(b, d)

SpecValidator == Init /\ [][NextValidator]_vars

\* NewSchemaCache(0), as BenchmarkValidatorWithoutCache constructs the cache
\* of its validator: an empty map and capacity 0
InitZeroSize ==
    /\ schemas = <<>>
    /\ pc = [r \in Requests |-> "idle"]
    /\ req = [r \in Requests |-> Nil]
    /\ compiled = [r \in Requests |-> Nil]
    /\ upstream = [r \in Requests |-> Nil]
    /\ outbound = [r \in Requests |-> Nil]
    /\ response = [r \in Requests |-> Nil]
    /\ w = [r \in Requests |-> NoResponse]
    /\ trail = [r \in Requests |-> <<>>]
    /\ calls = [r \in Requests |-> NoCalls]
    /\ args = [r \in Requests |-> NoArgs]
    /\ attempts = [r \in Requests |-> 0]
    /\ rid = [r \in Requests |-> ""]
    /\ mw = [r \in Requests |-> NoMiddleware]
    /\ last = Nil
    /\ nSets = 0
    /\ maxSize = 0
    /\ mu = Unlocked
    /\ th = [g \in Threads |-> Idle]
    /\ exch = [r \in Requests |-> NoExchange]
    /\ now = Epoch

\* the validator with a cache of capacity 0, called from one goroutine
SpecValidatorZeroSize == InitZeroSize /\ [][NextValidator]_vars

(***************************************************************************)
(* SchemaCache called directly by several goroutines, statement by         *)
(* statement: Get and Size between RLock and RUnlock, Set between Lock and *)
(* Unlock.  The cache is constructed with any capacity up to MaxSize.      *)
(***************************************************************************)
\* the schemas the goroutines look up and store
CacheDocs == {S_person, S_name, S_any}

\* every cache method taking the read lock
LockModeAllRead(op) == "RLock"

\* the lock a cache method takes: Set the write lock, Get and Size the read
\* lock
LockMode(op) == IF op = "Set" THEN "Lock" ELSE "RLock"

\* sync.RWMutex: RLock returns unless a writer holds the lock or waits for it
CanRLock(m) == m.writer = 0 /\ m.waiting = {}

\* sync.RWMutex: Lock returns once no writer and no reader holds the lock
CanLock(m) == m.writer = 0 /\ m.readers = {}

\* NewSchemaCache(maxSize): an empty map and the capacity given
InitCache ==
    /\ schemas = <<>>
    /\ pc = [r \in Requests |-> "idle"]
    /\ req = [r \in Requests |-> Nil]
    /\ compiled = [r \in Requests |-> Nil]
    /\ upstream = [r \in Requests |-> Nil]
    /\ outbound = [r \in Requests |-> Nil]
    /\ response = [r \in Requests |-> Nil]
    /\ w = [r \in Requests |-> NoResponse]
    /\ trail = [r \in Requests |-> <<>>]
    /\ calls = [r \in Requests |-> NoCalls]
    /\ args = [r \in Requests |-> NoArgs]
    /\ attempts = [r \in Requests |-> 0]
    /\ rid = [r \in Requests |-> ""]
    /\ mw = [r \in Requests |-> NoMiddleware]
    /\ last = Nil
    /\ nSets = 0
    /\ maxSize \in 0..MaxSize
    /\ mu = Unlocked
    /\ th = [g \in Threads |-> Idle]
    /\ exch = [r \in Requests |-> NoExchange]
    /\ now = Epoch

\* g calls Get, Size or Set: sc.mu.RLock() returns, or sc.mu.Lock() is entered
Call(g, op, b) ==
    /\ th[g].at = "idle"
    /\ IF LockMode(op) = "RLock"
       THEN /\ CanRLock(mu)
            /\ mu' = [mu EXCEPT !.readers = @ \cup {g}]
            /\ th' = [th EXCEPT ![g] = [at |-> "in", op |-> op, doc |-> b,
                                        seen |-> schemas]]
       ELSE /\ mu' = [mu EXCEPT !.waiting = @ \cup {g}]
            /\ th' = [th EXCEPT ![g] = [at |-> "waiting", op |-> op, doc |-> b,
                                        seen |-> Nil]]
    /\ UNCHANGED <<schemas, maxSize, serverVars, unitVars, chainVars>>

\* sc.mu.Lock() returns in g
Acquire(g) ==
    /\ th[g].at = "waiting"
    /\ CanLock(mu)
    /\ mu' = [mu EXCEPT !.writer = g, !.waiting = @ \ {g}]
    /\ th' = [th EXCEPT ![g].at = "in", ![g].seen = schemas]
    /\ UNCHANGED <<schemas, maxSize, serverVars, unitVars, chainVars>>

\* Get reads sc.schemas[key], Size reads len(sc.schemas)
Read(g) ==
    /\ th[g].at = "in" /\ th[g].op \in {"Get", "Size"}
    /\ th' = [th EXCEPT ![g].at = "out",
                        ![g].seen = IF th[g].op = "Get"
                                    THEN Get(schemas, CacheKey(th[g].doc))
                                    ELSE Size(schemas)]
    /\ UNCHANGED <<schemas, maxSize, mu, serverVars, unitVars, chainVars>>

\* Set replaces the map by an empty one when it is at capacity
Evict(g) ==
    /\ th[g].at = "in" /\ th[g].op = "Set"
    /\ schemas' = Evicted(schemas)
    /\ th' = [th EXCEPT ![g].at = "evicted"]
    /\ UNCHANGED <<maxSize, mu, serverVars, unitVars, chainVars>>

\* the compiled schema g stores for the bytes b
Stores(g, b) == Compile(b, SchemaURL(CacheKey(b)), g).schema

\* Set writes sc.schemas[key] = schema
Insert(g) ==
    /\ th[g].at = "evicted"
    /\ schemas' = Inserted(schemas, CacheKey(th[g].doc), Stores(g, th[g].doc))
    /\ th' = [th EXCEPT ![g].at = "inserted"]
    /\ UNCHANGED <<maxSize, mu, serverVars, unitVars, chainVars>>

\* the deferred RUnlock or Unlock runs and the method returns
Return(g) ==
    /\ th[g].at \in {"out", "inserted"}
    /\ mu' = IF LockMode(th[g].op) = "RLock"
             THEN [mu EXCEPT !.readers = @ \ {g}]
             ELSE [mu EXCEPT !.writer = 0]
    /\ th' = [th EXCEPT ![g] = Idle]
    /\ UNCHANGED <<schemas, maxSize, serverVars, unitVars, chainVars>>

NextCache ==
    \E g \in Threads :
        \/ \E b \in CacheDocs : Call(g, "Get", b) \/ Call(g, "Set", b)
        \/ Call(g, "Size", <<>>)
        \/ Acquire(g)
        \/ Read(g)
        \/ Evict(g)
        \/ Insert(g)
        \/ Return(g)

SpecCache == InitCache /\ [][NextCache]_vars

(***************************************************************************)
(* The middleware chain of cmd/server/main.go around any handler: what the  *)
(* handler does (write, wait on its context, return, panic) is left open.   *)
(* Exchanges on different connections run concurrently.                     *)
(***************************************************************************)
\* the statuses the wrapped handler answers with
HandlerStatuses == {StatusOK, StatusBadRequest}

\* the handler of r is running
Running(r) == exch[r].at \in {"next", "wrote", "waiting"}

\* the request in arrives on connection r and passes the chain on the way in
Enter(r, in) ==
    /\ exch[r].at = "idle"
    /\ exch' = [exch EXCEPT ![r] = Chain(Exchange(in), now)]
    /\ UNCHANGED <<now, schemas, serverVars, unitVars, cacheVars>>

\* the handler writes status s and a body
HandlerWrite(r, s) ==
    /\ exch[r].at = "next"
    /\ exch' = [exch EXCEPT ![r].w = Write(@, s, [kind |-> "text", bytes |-> <<"success">>]),
                            ![r].hw = Write(@, s, [kind |-> "text", bytes |-> <<"success">>]),
                            ![r].at = "wrote"]
    /\ UNCHANGED <<now, schemas, serverVars, unitVars, cacheVars>>

\* the handler starts to wait for its work or for the end of its context
HandlerWait(r) ==
    /\ exch[r].at = "next"
    /\ exch' = [exch EXCEPT ![r].at = "waiting"]
    /\ UNCHANGED <<now, schemas, serverVars, unitVars, cacheVars>>

\* the work the handler waits for is done and the handler goes on
HandlerWorkDone(r) ==
    /\ exch[r].at = "waiting"
    /\ exch' = [exch EXCEPT ![r].at = "next"]
    /\ UNCHANGED <<now, schemas, serverVars, unitVars, cacheVars>>

\* context.WithTimeout: the timer of the deadline fires and the context of
\* the handler is done
TimerFires(r) ==
    /\ Running(r)
    /\ exch[r].ctx.deadline /\ ~exch[r].ctx.done
    /\ exch' = [exch EXCEPT ![r].ctx.done = TRUE]
    /\ UNCHANGED <<now, schemas, serverVars, unitVars, cacheVars>>

\* the waiting handler receives from ctx.Done() and returns
HandlerCancelled(r) ==
    /\ exch[r].at = "waiting"
    /\ exch[r].ctx.done
    /\ exch' = [exch EXCEPT ![r] = Returned(@)]
    /\ UNCHANGED <<now, schemas, serverVars, unitVars, cacheVars>>

\* the handler returns
HandlerReturn(r) ==
    /\ exch[r].at \in {"next", "wrote"}
    /\ exch' = [exch EXCEPT ![r] = Returned(@)]
    /\ UNCHANGED <<now, schemas, serverVars, unitVars, cacheVars>>

\* the handler panics, before or after it has written
HandlerPanic(r) ==
    /\ Running(r)
    /\ exch' = [exch EXCEPT ![r] = Panicked(@)]
    /\ UNCHANGED <<now, schemas, serverVars, unitVars, cacheVars>>

\* the response is sent and the connection takes the next request
Leave(r) ==
    /\ exch[r].at = "returned"
    /\ exch' = [exch EXCEPT ![r] = NoExchange]
    /\ UNCHANGED <<now, schemas, serverVars, unitVars, cacheVars>>

NextMiddleware ==
    \/ Tick
    \/ \E r \in Requests :
          \/ \E in \in Inbound : Enter(r, in)
          \/ \E s \in HandlerStatuses : HandlerWrite(r, s)
          \/ HandlerWait(r)
          \/ HandlerWorkDone(r)
          \/ TimerFires(r)
          \/ HandlerCancelled(r)
          \/ HandlerReturn(r)
          \/ HandlerPanic(r)
          \/ Leave(r)

SpecMiddleware == Init /\ [][NextMiddleware]_vars

\* the timer of a deadline fires, and a handler that waits on its context
\* is woken when the context is done
SpecMiddlewareLive ==
    /\ SpecMiddleware
    /\ \A r \in Requests : WF_vars(TimerFires(r)) /\ WF_vars(HandlerCancelled(r))

(***************************************************************************)
(* Properties of the request pipeline (checked under Spec).                *)
(***************************************************************************)
\* the request of r was decoded and is being or has been handled
Decoded(r) == pc[r] # "idle" /\ req[r] # Nil

\* the texts of the model that are exactly one JSON value
ParsingTexts == {b \in Texts : WellFormed(b)}

\* the bytes b parse as JSON
Parses(b) == b \in ParsingTexts

\* the schema documents that do not compile: not JSON, or no JSON Schema
MalformedSchemas ==
    {b \in Schemas : ~WellFormed(b) \/ Compile(b, SchemaURL(CacheKey(b)), 0).err # ""}

\* the schema bytes b do not compile
Malformed(b) == b \in MalformedSchemas

\* the one error envelope a failed request answers with
ErrorAnswer(status, code, message, details, requestID) ==
    [status |-> status,
     body |-> <<WithRequestID(NewErrorResponse(code, message, details), requestID)>>]

\* C1: validateSchema runs before any call to the Dispatcher: a request that
\* has called the Dispatcher has passed SchemaChecked first, and a request
\* whose schema fails validateSchema never calls the Dispatcher and, once
\* answered, is answered 400 with code INVALID_SCHEMA.
C1_SchemaCheckedBeforeDispatch ==
    \A r \in Requests :
        /\ calls[r].dispatch > 0 =>
              /\ calls[r].validateSchema = 1
              /\ Len(trail[r]) >= 2 /\ trail[r][2] = "SchemaChecked"
        /\ (Decoded(r) /\ Malformed(req[r].schema)) =>
              /\ calls[r].dispatch = 0
              /\ calls[r].validateSchema = 1 => pc[r] = "done"
              /\ pc[r] = "done" =>
                    /\ w[r].status = StatusBadRequest
                    /\ Len(w[r].body) = 1
                    /\ w[r].body[1].code = ErrorCodeInvalidSchema
                    /\ w[r].body[1].details[1] = "invalid schema"

\* C1 witness: a request with schema {"type":"invalid_type"} was answered 400
C1_Witness ==
    \E r \in Requests :
        /\ Decoded(r) /\ req[r].schema = S_bad /\ pc[r] = "done"
        /\ w[r].status = StatusBadRequest /\ calls[r].dispatch = 0

\* the stages of a request that completed
CompletedTrail ==
    <<"Received", "SchemaChecked", "Dispatched", "ResponseChecked", "Completed">>

\* two JSON texts denote the same document: equal but for insignificant
\* whitespace and the escaping of HTML characters
SameDocument(a, b) == Compact(a) = Compact(b)

\* the pairs of a schema document and a payload that conforms to it
Conforming ==
    {c \in Schemas \X Payloads :
        /\ ~Malformed(c[1])
        /\ WellFormed(c[2])
        /\ Validate(Compile(c[1], SchemaURL(CacheKey(c[1])), 0).schema, c[2])}

\* the payload d conforms to the schema bytes b
Conforms(b, d) == <<b, d>> \in Conforming

\* C2: a 200 response is produced only after Received, SchemaChecked,
\* Dispatched, ResponseChecked, Completed in that order, each step made once;
\* its body is the document the Dispatcher returned for that request, and
\* that payload conforms to the request's schema.
C2_CompletedOnlyThroughAllStages ==
    \A r \in Requests :
        w[r].status = StatusOK =>
            /\ trail[r] = CompletedTrail
            /\ calls[r] = [validateSchema |-> 1, dispatch |-> 1, validateResponse |-> 1]
            /\ response[r] # Nil /\ response[r].err = ""
            /\ Conforms(req[r].schema, response[r].data)
            /\ Len(w[r].body) = 1 /\ w[r].body[1].kind = "raw"
            /\ SameDocument(w[r].body[1].bytes, response[r].data)

\* C2 witness: a request completed with 200
C2_Witness ==
    \E r \in Requests :
        /\ pc[r] = "done" /\ w[r].status = StatusOK
        /\ req[r].schema = S_person /\ response[r].data = P_john

\* the ways a request fails: the stage, the status and code of the answer,
\* and the calls made up to the failure
Failures ==
    {[stage |-> "Failed(InvalidRequest)", status |-> StatusBadRequest,
      code |-> ErrorCodeInvalidRequest, calls |-> NoCalls],
     [stage |-> "Failed(InvalidSchema)", status |-> StatusBadRequest,
      code |-> ErrorCodeInvalidSchema,
      calls |-> [validateSchema |-> 1, dispatch |-> 0, validateResponse |-> 0]],
     [stage |-> "Failed(UpstreamError)", status |-> StatusInternalServerError,
      code |-> ErrorCodeLLMError,
      calls |-> [validateSchema |-> 1, dispatch |-> 1, validateResponse |-> 0]],
     [stage |-> "Failed(ValidationFailed)", status |-> StatusUnprocessableEntity,
      code |-> ErrorCodeValidationFailed,
      calls |-> [validateSchema |-> 1, dispatch |-> 1, validateResponse |-> 1]]}

Terminal == {"Completed"} \cup {k.stage : k \in Failures}

\* how many terminal stages the request has entered
Outcomes(r) == Cardinality({i \in DOMAIN trail[r] : trail[r][i] \in Terminal})

\* the request of r has its one answer: a success body, or one error envelope
\* of one kind, written after exactly the steps that lead to that kind
OneOutcome(r) ==
    /\ Outcomes(r) = 1
    /\ Len(w[r].body) = 1
    /\ \/ /\ w[r].status = StatusOK
          /\ w[r].body[1].kind = "raw"
          /\ trail[r] = CompletedTrail
       \/ \E k \in Failures :
             /\ w[r].status = k.status
             /\ w[r].body[1].kind = "envelope"
             /\ w[r].body[1].code = k.code
             /\ trail[r][Len(trail[r])] = k.stage
             /\ calls[r] = k.calls

\* C3: every request ends in exactly one terminal outcome, Completed with a
\* success body or Failed with one error envelope of one kind; nothing is
\* written before the outcome, and once the answer is written no further
\* step of that request runs and nothing more is written (Failed absorbs).
C3_ExactlyOneTerminalOutcome ==
    /\ [](\A r \in Requests :
            /\ pc[r] # "done" => w[r] = NoResponse /\ Outcomes(r) = 0
            /\ pc[r] = "done" => OneOutcome(r))
    /\ [][\A r \in Requests :
            w[r] # NoResponse =>
                \/ w'[r] = w[r] /\ calls'[r] = calls[r] /\ trail'[r] = trail[r]
                     /\ pc'[r] = pc[r]
                \/ pc'[r] = "idle" /\ w'[r] = NoResponse]_vars

\* C3 witness: one request has failed and another has completed
C3_Witness ==
    \E r, q \in Requests :
        /\ pc[r] = "done" /\ w[r].status = StatusInternalServerError
        /\ pc[q] = "done" /\ w[q].status = StatusOK

\* the Dispatcher's payload for r was rejected by validateResponse
Rejected(r) ==
    /\ pc[r] = "done" /\ response[r] # Nil /\ response[r].err = ""
    /\ ~Conforms(req[r].schema, response[r].data)

\* C4: a Dispatcher payload that validateResponse rejects is answered 422 with
\* error "validation_error", code VALIDATION_FAILED and a response member
\* equal, byte for byte, to the payload the Dispatcher returned.
C4_RejectedPayloadVerbatim ==
    \A r \in Requests :
        Rejected(r) =>
            /\ w[r].status = StatusUnprocessableEntity
            /\ Len(w[r].body) = 1
            /\ w[r].body[1].error = "validation_error"
            /\ w[r].body[1].code = ErrorCodeValidationFailed
            /\ w[r].body[1].response = response[r].data

\* the backend behaviour u makes SendStructuredQuery fail
FailingUpstream(u) ==
    \/ ~u.transport
    \/ u.status # StatusOK
    \/ ~u.decodes
    \/ Len(u.choices) = 0
    \/ ~Parses(u.choices[1])

\* C5: every Dispatcher error (transport failure, upstream status 500,
\* undecodable envelope, no choices, non-JSON content) ends the request with
\* 500 and code LLM_ERROR, and validateResponse is never run for it.
C5_DispatcherErrorIsLLMError ==
    \A r \in Requests :
        /\ (upstream[r] # Nil /\ FailingUpstream(upstream[r])) => response[r].err # ""
        /\ (response[r] # Nil /\ response[r].err # "") =>
              /\ response[r].data = Nil
              /\ pc[r] = "done"
              /\ w[r] = ErrorAnswer(StatusInternalServerError, ErrorCodeLLMError,
                                     "LLM service error", <<response[r].err>>, rid[r])
              /\ calls[r].validateResponse = 0

\* C5 witness: the backend answered 500 and the request was answered 500
C5_Witness ==
    \E r \in Requests :
        /\ upstream[r] # Nil /\ upstream[r].status = StatusInternalServerError
        /\ pc[r] = "done" /\ w[r].status = StatusInternalServerError

\* C6: a request whose body does not decode is answered 400 with code
\* INVALID_REQUEST at once; neither the Validator nor the Dispatcher is
\* called for it, and the step that answers it leaves the cache unchanged.
C6_UndecodableBodyIsInvalidRequest ==
    /\ [](\A r \in Requests :
            (pc[r] # "idle" /\ req[r] = Nil) =>
                /\ pc[r] = "done"
                /\ w[r] = ErrorAnswer(StatusBadRequest, ErrorCodeInvalidRequest,
                                       "Invalid request body", <<"invalid character">>,
                                       rid[r])
                /\ calls[r] = NoCalls)
    /\ [][\A r \in Requests :
            (pc[r] = "idle" /\ pc'[r] # "idle" /\ req'[r] = Nil) =>
                schemas' = schemas]_vars

\* C6 witness: an undecodable body was answered while the cache held a schema
C6_Witness ==
    \E r \in Requests :
        /\ pc[r] = "done" /\ req[r] = Nil /\ w[r].status = StatusBadRequest
        /\ Size(schemas) > 0

\* C7: the 200 response body is the payload byte for byte as the Dispatcher
\* returned it.
C7_SuccessBodyVerbatim ==
    \A r \in Requests :
        w[r].status = StatusOK =>
            /\ Len(w[r].body) = 1
            /\ w[r].body[1].bytes = response[r].data

\* s is what compiling the schema bytes b yields
CompiledFrom(b, s) ==
    /\ ~Malformed(b)
    /\ s # Nil
    /\ s.url = SchemaURL(CacheKey(b))
    /\ s.type = keywords[b].type
    /\ s.required = keywords[b].required

\* the answer to r is the verdict of its schema on the payload the
\* Dispatcher returned for it
CorrectVerdict(r) ==
    (pc[r] = "done" /\ response[r] # Nil /\ response[r].err = "") =>
        IF Conforms(req[r].schema, response[r].data)
        THEN w[r].status = StatusOK
        ELSE w[r].status = StatusUnprocessableEntity

\* C13: with requests handled concurrently, every cache entry is the compiled
\* form of the schema bytes that have its key as fingerprint, so is every
\* compiled schema a request holds, and every request that got a payload is
\* answered by the verdict of its own schema on that payload.
C13_NoEntryForWrongSchema ==
    /\ \A k \in DOMAIN schemas :
          /\ \E b \in Schemas : CacheKey(b) = k
          /\ \A b \in Schemas : CacheKey(b) = k => CompiledFrom(b, schemas[k])
    /\ \A r \in Requests :
          /\ compiled[r] # Nil => CompiledFrom(req[r].schema, compiled[r])
          /\ CorrectVerdict(r)

\* C13 witness: two requests with distinct schemas have both been answered,
\* each as its own schema demands, and both schemas are cached
C13_Witness ==
    /\ pc[1] = "done" /\ pc[2] = "done"
    /\ req[1] # Nil /\ req[2] # Nil
    /\ req[1].schema = S_person /\ req[2].schema = S_name
    /\ response[1] # Nil /\ response[2] # Nil
    /\ response[1].err = "" /\ response[2].err = ""
    /\ response[1].data = P_nameOnly /\ response[2].data = P_nameOnly
    /\ w[1].status = StatusUnprocessableEntity /\ w[2].status = StatusOK
    /\ Size(schemas) = 2

\* r has passed validateSchema with a schema that compiles
PassedSchemaCheck(r) ==
    /\ req[r] # Nil /\ ~Malformed(req[r].schema)
    /\ pc[r] \in {"dispatch", "validateResponse", "vrStore", "done"}

C33_SameSchemaAndMessagesThroughout ==
    /\ [](\A r \in Requests :
            /\ args[r].validateSchema # Nil =>
                  req[r] # Nil /\ args[r].validateSchema = req[r].schema
            /\ args[r].dispatch # Nil =>
                  /\ args[r].validateSchema = req[r].schema
                  /\ args[r].dispatch.schema = req[r].schema
                  /\ args[r].dispatch.messages = req[r].messages
                  /\ req[r].messages = Conversation
                  /\ outbound[r] # Nil => outbound[r].messages = Conversation
            /\ args[r].validateResponse # Nil =>
                  /\ args[r].dispatch # Nil
                  /\ args[r].validateResponse.schema = args[r].validateSchema
                  /\ args[r].validateResponse.schema = args[r].dispatch.schema
                  /\ args[r].validateResponse.data = response[r].data)
    /\ [][\A r \in Requests :
            (req[r] # Nil /\ pc'[r] # "idle") => req'[r] = req[r]]_vars

\* C33 witness: a request with the schema written with whitespace has gone
\* through all three calls
C33_Witness ==
    \E r \in Requests :
        /\ pc[r] = "done" /\ req[r] # Nil /\ req[r].schema = S_personWs
        /\ args[r].validateSchema = S_personWs
        /\ args[r].dispatch = [messages |-> Conversation, schema |-> S_personWs]
        /\ args[r].validateResponse = [schema |-> S_personWs, data |-> P_john]

\* the answer to a request by the pipeline run on a validator without a
\* cache: a function of the decoded request, the reply of the backend and
\* the request id alone
UncachedAnswer(rq, u, requestID) ==
    IF rq = Nil
    THEN ErrorAnswer(StatusBadRequest, ErrorCodeInvalidRequest, "Invalid request body",
                     <<"invalid character">>, requestID)
    ELSE IF ValidateSchemaUncached(rq.schema) # <<>>
    THEN ErrorAnswer(StatusBadRequest, ErrorCodeInvalidSchema, "Invalid JSON schema",
                     ValidateSchemaUncached(rq.schema), requestID)
    ELSE LET out == SendStructuredQuery(u, rq.messages, rq.schema) IN
         IF out.err # ""
         THEN ErrorAnswer(StatusInternalServerError, ErrorCodeLLMError,
                          "LLM service error", <<out.err>>, requestID)
         ELSE IF ValidateResponseUncached(rq.schema, out.data) # <<>>
         THEN writeValidationError(NoResponse, "Schema validation failed",
                                   ValidateResponseUncached(rq.schema, out.data),
                                   out.data, requestID)
         ELSE writeSuccess(NoResponse, out.data)

\* C35: the cache is transparent.  However the requests interleave, whether
\* a call hits or misses, whatever was evicted and whichever concurrent
\* compile was stored: the error (or none) of every ValidateSchema and
\* ValidateResponse call is the one a validator without a cache returns for
\* the same arguments, and the answer to a request is the answer of the
\* pipeline on such a validator, determined by the request, the reply of the
\* backend and the request id.
C35_CacheTransparent ==
    \A r \in Requests :
        /\ (args[r].validateSchema # Nil /\ pc[r] # "vsStore") =>
              LET v == ValidateSchemaUncached(args[r].validateSchema) IN
              IF v = <<>>
              THEN Len(trail[r]) >= 2 /\ trail[r][2] = "SchemaChecked"
              ELSE /\ trail[r] = <<"Received", "Failed(InvalidSchema)">>
                   /\ w[r].body[1].details = v
        /\ (args[r].validateResponse # Nil /\ pc[r] # "vrStore") =>
              LET v == ValidateResponseUncached(args[r].validateResponse.schema,
                                                args[r].validateResponse.data)
              IN
              IF v = <<>>
              THEN trail[r] = CompletedTrail /\ w[r].status = StatusOK
              ELSE /\ trail[r][Len(trail[r])] = "Failed(ValidationFailed)"
                   /\ w[r].body[1].details = v
        /\ pc[r] = "done" => w[r] = UncachedAnswer(req[r], upstream[r], rid[r])

\* C35 witness: a request was answered 200 by the schema it compiled itself
\* and stored into a cache that the requests of the other connection had
\* filled, which cleared the cache
C35_Witness ==
    \E r \in Requests :
        /\ pc[r] = "done" /\ w[r].status = StatusOK
        /\ req[r].schema = S_person
        /\ CacheKey(S_person) \in DOMAIN schemas
        /\ schemas[CacheKey(S_person)].obj = r
        /\ calls[r].validateResponse = 1 /\ Size(schemas) = 1
        /\ \E q \in Requests \ {r} :
              /\ pc[q] = "done" /\ req[q] # Nil /\ req[q].schema = S_any
              /\ w[q].status = StatusOK

\* the compiled schema s is what the bytes b alone determine: its resource
\* identifier is made from the fingerprint of b, its keywords are those of b
DeterminedBy(b, s) ==
    /\ s # Nil
    /\ s.url = <<"https://example.com/schema-", Sum256(b)[1], ".json">>
    /\ [type |-> s.type, required |-> s.required] = keywords[b]

\* C36: a compiled schema is determined by its schema bytes alone.  Every
\* compiled schema a request holds or the cache holds has the resource
\* identifier made from the fingerprint of its bytes and the keywords of
\* those bytes, also when another schema, compiled at the same time or
\* cached next to it, has the same identifier because the fingerprints agree
\* on the prefix the identifier is made of.
C36_CompiledFromOwnBytesAlone ==
    /\ \A r \in Requests :
          compiled[r] # Nil => DeterminedBy(req[r].schema, compiled[r])
    /\ \A k \in DOMAIN schemas :
          \A b \in Schemas : CacheKey(b) = k => DeterminedBy(b, schemas[k])
    /\ \A r, q \in Requests :
          (compiled[r] # Nil /\ compiled[q] # Nil /\ req[r].schema = req[q].schema) =>
              [compiled[r] EXCEPT !.obj = 0] = [compiled[q] EXCEPT !.obj = 0]

\* C36 witness: the cache holds the compiled {"type":"object"} under the same
\* resource identifier as the schema that requires name, which a request has
\* compiled and not yet stored
C36_Witness ==
    \E r \in Requests :
        /\ pc[r] = "vsStore" /\ req[r].schema = S_name
        /\ compiled[r].required = {"\"name\""}
        /\ CacheKey(S_any) \in DOMAIN schemas
        /\ schemas[CacheKey(S_any)].url = compiled[r].url
        /\ schemas[CacheKey(S_any)].required = {}

\* C38: once ValidateSchema has succeeded for the schema of a request, the
\* ValidateResponse of that request never fails at its compile step, however
\* the stores and evictions of other requests fall in between.  When the
\* schema is cached at the lookup the call is decided at once and leaves the
\* cache as it was; when it was evicted, the schema is compiled again from
\* the same bytes and stored again, and either way the request is answered
\* by the verdict of its schema on the payload: 200, or 422 with "validation
\* failed".
C38_ResponseCheckNeverFailsToCompile ==
    /\ [](\A r \in Requests :
            args[r].validateResponse # Nil =>
                /\ ~Malformed(req[r].schema)
                /\ pc[r] \in {"vrStore", "done"}
                /\ pc[r] = "vrStore" => CompiledFrom(req[r].schema, compiled[r])
                /\ pc[r] = "done" =>
                      /\ CorrectVerdict(r)
                      /\ w[r].status # StatusOK =>
                            w[r].body[1].details = <<"validation failed">>)
    /\ [][\A r \in Requests :
            (pc[r] = "validateResponse" /\ pc'[r] # "validateResponse") =>
                IF CacheKey(req[r].schema) \in DOMAIN schemas
                THEN pc'[r] = "done" /\ schemas' = schemas
                ELSE pc'[r] = "vrStore" /\ schemas' = schemas]_vars
    /\ [][\A r \in Requests :
            (pc[r] = "vrStore" /\ pc'[r] # "vrStore") =>
                /\ pc'[r] = "done"
                /\ Get(schemas', CacheKey(req[r].schema)) =
                      [schema |-> compiled[r], exists |-> TRUE]]_vars

\* C38 witness: a request whose schema passed ValidateSchema finds it gone
\* from the cache, which holds another schema, and has compiled it again
C38_Witness ==
    \E r \in Requests :
        /\ pc[r] = "vrStore" /\ req[r].schema = S_person
        /\ compiled[r] # Nil /\ response[r].data = P_john
        /\ CacheKey(S_person) \notin DOMAIN schemas
        /\ Size(schemas) = 1

(***************************************************************************)
(* Properties of the schema cache (checked under SpecValidator).           *)
(***************************************************************************)
\* the last call compiled its schema and stored it
LastStored == last # Nil /\ ~last.hit /\ last.compiled # Nil

\* C8: a store into a cache whose occupancy has reached the capacity clears
\* the whole cache first: after it the cache holds the stored schema alone,
\* below capacity a store adds one entry, and so MaxSize + 1 stores of
\* distinct schemas into the empty cache leave occupancy 1.
C8_WholeCacheEviction ==
    /\ nSets > 0 => Size(schemas) = ((nSets - 1) % MaxSize) + 1
    /\ nSets = MaxSize + 1 => Size(schemas) = 1
    /\ LastStored =>
          IF last.before >= MaxSize
          THEN /\ last.after = 1
               /\ schemas = [k \in {CacheKey(last.schema)} |-> last.compiled]
          ELSE /\ last.after = last.before + 1
               /\ schemas[CacheKey(last.schema)] = last.compiled

\* C8 witness: the store after the cache filled up has just been made
C8_Witness ==
    /\ nSets = MaxSize + 1 /\ LastStored
    /\ last.before = MaxSize /\ Size(schemas) = 1

\* the last two calls compiled the same bytes, and the first of them compiled
\* them anew
CompiledTwice ==
    /\ last # Nil /\ last.prev # Nil
    /\ last.prev.compiled # Nil /\ ~last.prev.hit

\* C9 as stated: compiling byte-identical schema content twice in sequence
\* increases the occupancy by exactly 1, the second compile being a hit that
\* returns the same compiled schema.
C9_TwiceAddsExactlyOne ==
    CompiledTwice =>
        /\ last.hit
        /\ last.compiled = last.prev.compiled
        /\ last.after = last.prev.before + 1

\* C9 amended: of two compiles of byte-identical valid schema content in
\* sequence the second is a hit that stores nothing and returns the same
\* compiled schema; when the first compiled the schema anew, the occupancy
\* grows by exactly 1 if the cache was below capacity before it, and is 1 if
\* the cache was at capacity.
C9_SecondCompileIsHit ==
    (last # Nil /\ last.prev # Nil /\ last.prev.compiled # Nil) =>
        /\ last.hit
        /\ last.compiled = last.prev.compiled
        /\ last.after = last.before
        /\ ~last.prev.hit =>
              last.after = IF last.prev.before < MaxSize
                           THEN last.prev.before + 1 ELSE 1
        /\ last.prev.hit => last.after = last.prev.before

\* C9 witness: the same bytes went through ValidateSchema and then through
\* ValidateResponse, the first compiling them into a full cache
C9_Witness ==
    /\ CompiledTwice
    /\ last.op = "ValidateResponse" /\ last.prev.before = MaxSize
    /\ last.hit /\ last.after = 1

\* C10: ValidateSchema of schema bytes that are not JSON, or are JSON that
\* does not compile, returns an "invalid schema" error, and the call neither
\* adds to the cache nor clears it.
C10_MalformedSchemaLeavesCache ==
    /\ []((last # Nil /\ last.op = "ValidateSchema" /\ Malformed(last.schema)) =>
            /\ last.err # <<>> /\ last.err[1] = "invalid schema"
            /\ last.compiled = Nil /\ ~last.hit
            /\ last.after = last.before)
    /\ [][(last' # Nil /\ last'.op = "ValidateSchema" /\ Malformed(last'.schema)) =>
            schemas' = schemas /\ nSets' = nSets]_vars

\* C10 witness: a schema that is JSON but does not compile was refused while
\* the cache was full
C10_Witness ==
    /\ last # Nil /\ last.op = "ValidateSchema" /\ last.schema = S_bad
    /\ last.err # <<>> /\ last.before = MaxSize

\* C11: ValidateResponse(S, D) of a well-formed schema S and data D that
\* conforms to S returns no error, and when S is cached at the call the call
\* is a hit that leaves the whole cache, S's entry included, as it was.
C11_ConformingResponseKeepsEntry ==
    /\ []((last # Nil /\ last.op = "ValidateResponse"
            /\ Conforms(last.schema, last.data)) =>
            /\ last.err = <<>>
            /\ CacheKey(last.schema) \in DOMAIN schemas
            /\ schemas[CacheKey(last.schema)] = last.compiled)
    /\ [][(last' # Nil /\ last'.op = "ValidateResponse"
            /\ Conforms(last'.schema, last'.data)
            /\ CacheKey(last'.schema) \in DOMAIN schemas) =>
            /\ last'.hit
            /\ schemas' = schemas
            /\ last'.compiled = schemas[CacheKey(last'.schema)]]_vars

\* C11 witness: a conforming payload was validated against a schema that was
\* cached in a full cache
C11_Witness ==
    /\ last # Nil /\ last.op = "ValidateResponse" /\ last.hit
    /\ last.schema = S_person /\ last.data = P_spaced
    /\ last.err = <<>> /\ last.before = MaxSize /\ last.after = MaxSize

\* C32: compileSchema computes the fingerprint and looks it up; on a hit it
\* returns the cached compiled schema itself and neither compiles nor stores;
\* on a miss it parses the bytes first (bytes that are not JSON fail with
\* "invalid JSON"), then compiles (JSON that is no schema fails with "compile
\* schema"), and a failure of either returns before any store; on success the
\* newly compiled schema is stored under the fingerprint, and what the call
\* returns is what the cache holds when it returns.
C32_CompileOrder ==
    [][last' # Nil =>
         LET b == last'.schema
             key == CacheKey(b)
         IN
         IF key \in DOMAIN schemas
         THEN /\ last'.hit /\ last'.compiled = schemas[key]
              /\ schemas' = schemas /\ nSets' = nSets
              /\ last'.err # <<>> =>
                    last'.err[1] \in {"invalid response JSON", "validation failed"}
         ELSE IF ~Parses(b)
         THEN /\ ~last'.hit /\ last'.compiled = Nil
              /\ Len(last'.err) = 2 /\ last'.err[2] = "invalid JSON"
              /\ schemas' = schemas /\ nSets' = nSets
         ELSE IF Malformed(b)
         THEN /\ ~last'.hit /\ last'.compiled = Nil
              /\ Len(last'.err) = 2 /\ last'.err[2] = "compile schema"
              /\ schemas' = schemas /\ nSets' = nSets
         ELSE /\ ~last'.hit /\ CompiledFrom(b, last'.compiled)
              /\ last'.compiled.obj = nSets' /\ nSets' = nSets + 1
              /\ schemas' = Set(schemas, key, last'.compiled)
              /\ Get(schemas', key) = [schema |-> last'.compiled, exists |-> TRUE]]_vars

\* C32 witness: bytes that are not JSON were refused at the parse step of a
\* miss while the cache held another schema
C32_Witness ==
    /\ last # Nil /\ last.op = "ValidateSchema" /\ last.schema = S_cut
    /\ last.err = <<"invalid schema", "invalid JSON">>
    /\ ~last.hit /\ last.before = 1 /\ last.after = 1

\* C34: ValidateResponse with a schema that compiles returns "invalid
\* response JSON" for a payload that does not parse, "validation failed" for
\* a payload that parses and does not conform, and no error otherwise: two
\* distinct errors.  Neither failure touches the entry of the schema: when
\* the schema was cached the whole cache stays as it was, and when it was
\* not, the cache is what storing the compiled schema made it, as after a
\* successful call.
C34_ParseFailureDistinctFromNonConformance ==
    /\ []((last # Nil /\ last.op = "ValidateResponse" /\ ~Malformed(last.schema)) =>
            /\ last.err = IF ~Parses(last.data) THEN <<"invalid response JSON">>
                          ELSE IF ~Conforms(last.schema, last.data)
                          THEN <<"validation failed">>
                          ELSE <<>>
            /\ Get(schemas, CacheKey(last.schema)) =
                  [schema |-> last.compiled, exists |-> TRUE])
    /\ [][(last' # Nil /\ last'.op = "ValidateResponse" /\ last'.err # <<>>
            /\ last'.err[1] \in {"invalid response JSON", "validation failed"}) =>
            IF CacheKey(last'.schema) \in DOMAIN schemas
            THEN schemas' = schemas
            ELSE schemas' = Set(schemas, CacheKey(last'.schema), last'.compiled)]_vars

\* C34 witness: against the same cached schema a payload that parses was
\* refused as not conforming and then a text that is no JSON as not parsing
C34_Witness ==
    /\ last # Nil /\ last.op = "ValidateResponse"
    /\ last.schema = S_person /\ last.data = P_text
    /\ last.err = <<"invalid response JSON">> /\ last.hit
    /\ last.prev # Nil /\ last.prev.err = <<"validation failed">>

\* C37: with a cache of capacity 0 no compile is served from the cache:
\* no call is a hit, and every call with a schema that compiles compiles it
\* anew.
C37_ZeroCapacityDisablesCaching ==
    (maxSize = 0 /\ last # Nil) =>
        /\ ~last.hit
        /\ ~Malformed(last.schema) => last.compiled.obj = nSets

(***************************************************************************)
(* Properties of the client and the middleware chain.                      *)
(***************************************************************************)
\* C18: no retries: a request calls the Dispatcher at most once and a call of
\* SendStructuredQuery makes at most one HTTP attempt, whatever the failure
\* and whatever number of retry attempts is configured; after a failed call
\* the request is answered.
C18_NoRetries ==
    \A r \in Requests :
        /\ calls[r].dispatch <= 1
        /\ attempts[r] <= calls[r].dispatch
        /\ (response[r] # Nil /\ response[r].err # "") =>
              pc[r] = "done" /\ attempts[r] <= 1

\* C18 witness: the backend answered 500 and the one attempt was the last
C18_Witness ==
    \E r \in Requests :
        /\ pc[r] = "done" /\ upstream[r] # Nil
        /\ upstream[r].status = StatusInternalServerError
        /\ calls[r].dispatch = 1 /\ attempts[r] = 1

\* the deadline of r had passed when the Dispatcher call returned
DeadlineExceeded(r) ==
    mw[r].expired /\ response[r] # Nil /\ response[r].err # ""

\* C16: a request whose deadline passes while (or before) the Dispatcher call
\* is outstanding has the call cancelled, is not validated, and is answered
\* with an error envelope of code TIMEOUT.
C16_DeadlineIsTimeout ==
    \A r \in Requests :
        DeadlineExceeded(r) =>
            /\ pc[r] = "done"
            /\ calls[r].validateResponse = 0
            /\ Len(w[r].body) = 1
            /\ w[r].body[1].kind = "envelope"
            /\ w[r].body[1].code = ErrorCodeTimeout

\* C17: a panic while a request is handled is answered with a 500 error
\* envelope of code INTERNAL_ERROR.
C17_PanicIsInternalError ==
    \A r \in Requests :
        mw[r].panicked =>
            /\ pc[r] = "done"
            /\ w[r].status = StatusInternalServerError
            /\ Len(w[r].body) = 1
            /\ w[r].body[1].kind = "envelope"
            /\ w[r].body[1].code = ErrorCodeInternalError

\* the error codes each status is sent with
CodesOf(status) ==
    CASE status = StatusBadRequest -> {ErrorCodeInvalidRequest, ErrorCodeInvalidSchema}
      [] status = StatusUnprocessableEntity -> {ErrorCodeValidationFailed}
      [] status = StatusInternalServerError ->
            {ErrorCodeLLMError, ErrorCodeInternalError, ErrorCodeTimeout}
      [] OTHER -> {}

\* C19: the status of every answer is a function of its outcome: 200 comes
\* with a validated payload and no error code, 400 with INVALID_REQUEST or
\* INVALID_SCHEMA, 422 with VALIDATION_FAILED, 500 with LLM_ERROR,
\* INTERNAL_ERROR or TIMEOUT.
C19_StatusFollowsOutcome ==
    \A r \in Requests :
        pc[r] = "done" =>
            /\ Len(w[r].body) = 1
            /\ IF w[r].status = StatusOK
               THEN /\ w[r].body[1].kind = "raw"
                    /\ response[r] # Nil /\ response[r].err = ""
                    /\ Conforms(req[r].schema, response[r].data)
               ELSE /\ w[r].body[1].kind = "envelope"
                    /\ w[r].body[1].code \in CodesOf(w[r].status)

NonSuccessStatus(r) ==
    /\ upstream[r] # Nil /\ upstream[r].transport
    /\ upstream[r].status \notin 200..299

\* C21: every non-2xx status of the backend makes SendStructuredQuery return
\* an error that names the status observed, and no payload; the request is
\* answered 500 LLM_ERROR with that error as details.
C21_NonSuccessStatusIsUpstreamError ==
    \A r \in Requests :
        NonSuccessStatus(r) =>
            /\ response[r].data = Nil
            /\ response[r].err = StatusError(upstream[r].status)
            /\ w[r] = ErrorAnswer(StatusInternalServerError, ErrorCodeLLMError,
                                   "LLM service error",
                                   <<StatusError(upstream[r].status)>>, rid[r])

\* C21 witness: the backend answered 404 and the error names 404
C21_Witness ==
    \E r \in Requests :
        /\ NonSuccessStatus(r) /\ upstream[r].status = 404
        /\ response[r].err = "LLM server returned status 404"

\* the backend answered the Dispatcher call of r with status 200 and an
\* envelope that decodes
EnvelopeDecoded(r) ==
    /\ upstream[r] # Nil /\ upstream[r].transport
    /\ upstream[r].status = StatusOK /\ upstream[r].decodes

\* C22: when the decoded envelope of the backend holds no choice,
\* SendStructuredQuery returns an error and no payload, and response
\* validation is not run.
C22_NoChoiceIsError ==
    \A r \in Requests :
        (EnvelopeDecoded(r) /\ Len(upstream[r].choices) = 0) =>
            /\ response[r].data = Nil
            /\ response[r].err = "no response choices"
            /\ calls[r].validateResponse = 0
            /\ pc[r] = "done" /\ w[r].status = StatusInternalServerError

\* C22 witness: a decoded envelope without choices was answered 500
C22_Witness ==
    \E r \in Requests :
        /\ EnvelopeDecoded(r) /\ upstream[r].choices = <<>>
        /\ pc[r] = "done" /\ w[r].body[1].code = ErrorCodeLLMError

\* C23: every payload SendStructuredQuery returns without error parses as
\* JSON; generated content that is not JSON is an error with the detail
\* "LLM response is not valid JSON", answered 500 LLM_ERROR, and response
\* validation is never run on it.
C23_ReturnedPayloadParses ==
    \A r \in Requests :
        /\ (response[r] # Nil /\ response[r].err = "") => Parses(response[r].data)
        /\ calls[r].validateResponse > 0 => Parses(response[r].data)
        /\ (EnvelopeDecoded(r) /\ Len(upstream[r].choices) > 0
            /\ ~Parses(upstream[r].choices[1])) =>
              /\ response[r].data = Nil
              /\ response[r].err = "LLM response is not valid JSON"
              /\ calls[r].validateResponse = 0
              /\ w[r] = ErrorAnswer(StatusInternalServerError, ErrorCodeLLMError,
                                     "LLM service error",
                                     <<"LLM response is not valid JSON">>, rid[r])

\* C23 witness: the backend generated the text John is 25
C23_Witness ==
    \E r \in Requests :
        /\ EnvelopeDecoded(r) /\ upstream[r].choices = <<P_text>>
        /\ pc[r] = "done" /\ w[r].status = StatusInternalServerError

\* the backend generated for r a JSON document that violates r's schema
Nonconforming(r) ==
    /\ EnvelopeDecoded(r) /\ Len(upstream[r].choices) > 0
    /\ Parses(upstream[r].choices[1])
    /\ ~Conforms(req[r].schema, upstream[r].choices[1])

\* C24: the Dispatcher does not check conformance: a JSON payload that
\* violates the schema is returned by SendStructuredQuery without error, as
\* generated, and is rejected by the handler's ValidateResponse step, with
\* 422 VALIDATION_FAILED and never as an upstream error.
C24_ConformanceCheckedByOrchestratorOnly ==
    \A r \in Requests :
        Nonconforming(r) =>
            /\ response[r].err = ""
            /\ response[r].data = upstream[r].choices[1]
            /\ "Failed(UpstreamError)" \notin {trail[r][i] : i \in DOMAIN trail[r]}
            /\ pc[r] = "done" =>
                  /\ calls[r].validateResponse = 1
                  /\ trail[r][Len(trail[r])] = "Failed(ValidationFailed)"
                  /\ w[r].status = StatusUnprocessableEntity
                  /\ w[r].body[1].code = ErrorCodeValidationFailed

\* C24 witness: {"name":"John"} came back for a schema that requires age
\* and was refused with 422
C24_Witness ==
    \E r \in Requests :
        /\ Nonconforming(r) /\ req[r].schema = S_person
        /\ response[r].data = P_nameOnly
        /\ pc[r] = "done" /\ w[r].status = StatusUnprocessableEntity

\* C25: the schema member of the request sent to the backend is the
\* caller's schema bytes, byte for byte.
C25_SchemaForwardedVerbatim ==
    \A r \in Requests :
        outbound[r] # Nil =>
            outbound[r].response_format.json_schema.schema = req[r].schema

\* the backend behaviour u is one SendStructuredQuery returns a payload for:
\* status exactly 200, an envelope that decodes, at least one choice, and a
\* first choice whose content parses as JSON
Answerable(u) ==
    /\ u.transport /\ u.status = StatusOK /\ u.decodes
    /\ Len(u.choices) >= 1 /\ Parses(u.choices[1])

\* C40: SendStructuredQuery returns a payload if and only if the status of
\* the backend is exactly 200, the envelope decodes, it has at least one
\* choice and the content of the first choice parses as JSON, and the payload
\* is that content whatever further choices there are; every other status,
\* 201 included, is returned as the error that names it, and every error
\* comes without a payload.
C40_PayloadIffAnswerable ==
    \A r \in Requests :
        upstream[r] # Nil =>
            /\ response[r].err = "" <=> Answerable(upstream[r])
            /\ Answerable(upstream[r]) => response[r].data = upstream[r].choices[1]
            /\ ~Answerable(upstream[r]) => response[r].data = Nil
            /\ (upstream[r].transport /\ upstream[r].status # StatusOK) =>
                  response[r].err = StatusError(upstream[r].status)

\* C40 witness: a reply of status 201 with a JSON choice was returned as an
\* error, and of a reply of status 200 with two choices the first was
\* returned
C40_Witness ==
    \E r, q \in Requests :
        /\ upstream[r] # Nil /\ upstream[r].status = 201
        /\ upstream[r].choices = <<P_john>>
        /\ response[r] = [data |-> Nil, err |-> "LLM server returned status 201"]
        /\ upstream[q] # Nil /\ upstream[q].status = StatusOK
        /\ upstream[q].choices = <<P_nameOnly, P_john>>
        /\ response[q] = [data |-> P_nameOnly, err |-> ""]

(***************************************************************************)
(* Properties of the middleware (checked under SpecMiddleware).            *)
(***************************************************************************)
\* the methods whose Content-Type middleware.ContentType looks at
BodyMethods == {"POST", "PUT", "PATCH"}

\* the one answer of middleware.ContentType to a request it refuses
Unsupported ==
    [status |-> StatusUnsupportedMediaType,
     body |-> <<[kind |-> "text", bytes |-> <<"Unsupported Media Type", "\n">>]>>]

\* C26: a POST, PUT or PATCH that reaches ContentType with a Content-Type
\* that is none of the required types is answered 415 and neither the next
\* layer nor the handler is called; a request of another method, or with a
\* required Content-Type, always goes on to the next handler.
C26_ContentTypeGate ==
    \A r \in Requests :
        "ContentType" \in exch[r].reached =>
            IF /\ exch[r].in.method \in BodyMethods
               /\ exch[r].in.contentType \notin RequiredTypes
            THEN /\ exch[r].at = "returned"
                 /\ exch[r].w = Unsupported
                 /\ exch[r].reached \cap {"RequestLogging", "next"} = {}
                 /\ exch[r].hw = NoResponse
            ELSE {"RequestLogging", "next"} \subseteq exch[r].reached

\* C26 witness: a PUT of text/plain was answered 415 while a GET without
\* Content-Type is in the handler
C26_Witness ==
    \E r, q \in Requests :
        /\ exch[r].at = "returned" /\ exch[r].in.method = "PUT"
        /\ exch[r].in.contentType = "text/plain"
        /\ exch[r].w.status = StatusUnsupportedMediaType
        /\ exch[q].at = "next" /\ exch[q].in.method = "GET"
        /\ exch[q].in.contentType = ""

\* the values of the X-Request-ID header of the response
ResponseIDs(x) == {h[2] : h \in {g \in x.header : g[1] = "X-Request-ID"}}

\* C27: RequestLogging takes the X-Request-ID of the inbound request as the
\* request id when there is one, and else generates a non-empty id from the
\* clock; either way the id in the context the next handler sees is the
\* X-Request-ID header of the response.
C27_RequestIDInContextAndHeader ==
    \A r \in Requests :
        "RequestLogging" \in exch[r].reached =>
            /\ GetRequestID(exch[r].ctx) # ""
            /\ exch[r].in.requestID # "" =>
                  GetRequestID(exch[r].ctx) = exch[r].in.requestID
            /\ exch[r].in.requestID = "" =>
                  /\ GetRequestID(exch[r].ctx) = FormatInt(exch[r].ctx.start, 36)
                  /\ exch[r].ctx.start \in Epoch..now
            /\ ResponseIDs(exch[r]) = {GetRequestID(exch[r].ctx)}

\* C27 witness: a request that brought client-7 and one that brought no id
\* are both in their handlers, the second with an id made from the clock
C27_Witness ==
    \E r, q \in Requests :
        /\ exch[r].at = "next" /\ exch[r].in.requestID = "client-7"
        /\ exch[r].ctx.id = "client-7"
        /\ exch[q].at = "next" /\ exch[q].in.requestID = ""
        /\ exch[q].ctx.id = "1b9" /\ HeaderOf(exch[q], "X-Request-ID") = "1b9"

\* r's request id was generated by RequestLogging
Generated(r) == "RequestLogging" \in exch[r].reached /\ exch[r].in.requestID = ""

\* C28: the request ids generated for two requests in flight are distinct.
C28_GeneratedIDsDistinct ==
    \A r, q \in Requests :
        (r # q /\ Generated(r) /\ Generated(q)) =>
            GetRequestID(exch[r].ctx) # GetRequestID(exch[q].ctx)

\* the records Recovery has logged for the exchange x
RecoveryRecords(x) ==
    {i \in DOMAIN x.logs : x.logs[i].by = "recovery_middleware"}

\* the text http.Error writes for a recovered panic
InternalServerErrorText ==
    [kind |-> "text", bytes |-> <<"Internal Server Error", "\n">>]

\* a handler that did not panic: its status and body are the response, and
\* Recovery has logged nothing
PassedThrough(x) ==
    /\ x.w = x.hw
    /\ RecoveryRecords(x) = {}

C30_DeadlineReachesHandler ==
    /\ [](\A r \in Requests :
            /\ Running(r) => exch[r].ctx.deadline
            /\ (exch[r].at = "returned" /\ "next" \in exch[r].reached
                /\ ~exch[r].panicked) =>
                  exch[r].ctx.done /\ exch[r].w = exch[r].hw)
    /\ \A r \in Requests : (exch[r].at = "waiting") ~> (exch[r].at # "waiting")

\* C30 witness: the deadline has passed while the handler waits on its context
C30_Witness ==
    \E r \in Requests :
        /\ exch[r].at = "waiting" /\ exch[r].ctx.deadline /\ exch[r].ctx.done
        /\ exch[r].w = NoResponse

\* C31: the chain is composed Recovery > CORS > RequestTimeout > ContentType >
\* RequestLogging > handler.  A request that reaches the handler has passed
\* all five layers and has a request id, a logger scoped to it, a start time
\* and a deadline in its context, and its response has the CORS headers and
\* the X-Request-ID header; a request an outer layer answers has passed only
\* the layers outside of that layer (CORS answers OPTIONS before any deadline
\* is set, ContentType refuses with the CORS headers and the deadline but
\* before any request id is made); and a panic of the handler is caught by
\* Recovery, which ends the exchange.
C31_ChainOrder ==
    \A r \in Requests :
        LET x == exch[r] IN
        /\ "next" \in x.reached =>
              /\ x.reached = {"Recovery", "CORS", "RequestTimeout", "ContentType",
                              "RequestLogging", "next"}
              /\ GetRequestID(x.ctx) # "" /\ x.ctx.logger = GetRequestID(x.ctx)
              /\ x.ctx.start \in Epoch..now
              /\ x.ctx.deadline
              /\ CORSHeaders \subseteq x.header
              /\ HeaderOf(x, "X-Request-ID") = GetRequestID(x.ctx)
        /\ (x.at # "idle" /\ "next" \notin x.reached) =>
              /\ x.at = "returned" /\ x.hw = NoResponse
              /\ CORSHeaders \subseteq x.header
              /\ HeaderOf(x, "X-Request-ID") = "" /\ x.ctx.id = ""
              /\ IF x.in.method = "OPTIONS"
                 THEN /\ x.reached = {"Recovery", "CORS"}
                      /\ ~x.ctx.deadline /\ x.w.status = StatusOK
                 ELSE /\ x.reached = {"Recovery", "CORS", "RequestTimeout", "ContentType"}
                      /\ x.ctx.deadline /\ x.w.status = StatusUnsupportedMediaType
        /\ x.panicked =>
              /\ "Recovery" \in x.reached /\ x.at = "returned"
              /\ \E i \in DOMAIN x.logs : x.logs[i].by = "recovery_middleware"

\* C31 witness: one request is in the handler behind all five layers, and a
\* POST of text/plain was refused by ContentType with the CORS headers set
C31_Witness ==
    \E r, q \in Requests :
        /\ exch[r].at = "next" /\ exch[r].ctx.deadline /\ exch[r].ctx.id # ""
        /\ CORSHeaders \subseteq exch[r].header
        /\ exch[q].at = "returned" /\ exch[q].in.method = "POST"
        /\ exch[q].in.contentType = "text/plain"
        /\ exch[q].w.status = StatusUnsupportedMediaType
        /\ CORSHeaders \subseteq exch[q].header

(***************************************************************************)
(* Properties of SchemaCache (checked under SpecCache).                    *)
(***************************************************************************)
\* C12: whatever capacity the cache was constructed with and however Get,
\* Set and Size interleave, the occupancy never exceeds the capacity.
C12_OccupancyWithinCapacity == Size(schemas) <= maxSize

\* C39: Set(k, v) on a map whose size has reached the capacity leaves the
\* map as exactly {k -> v}, also when k was in the map (so of two goroutines
\* that store the same schema into a full cache the second clears every
\* other entry although k needs no new slot); below capacity it adds or
\* replaces k.  After a Set(k, v) Get(k) returns v, and only a Set changes
\* the map.
C39_PutOnFullCacheLeavesOneEntry ==
    /\ [](\A g \in Threads :
            th[g].at = "inserted" =>
                LET k == CacheKey(th[g].doc)
                    v == Stores(g, th[g].doc)
                IN
                /\ IF Size(th[g].seen) >= maxSize
                   THEN schemas = [j \in {k} |-> v]
                   ELSE schemas = [j \in DOMAIN th[g].seen \cup {k} |->
                                      IF j = k THEN v ELSE th[g].seen[j]]
                /\ Get(schemas, k) = [schema |-> v, exists |-> TRUE])
    /\ [][schemas' # schemas =>
            \E g \in Threads :
                th[g].op = "Set" /\ th[g].at \in {"in", "evicted"}
                /\ th'[g].at \in {"evicted", "inserted"}]_vars

\* C39 witness: a goroutine has stored a schema that was already in the full
\* cache, which now holds that schema alone, while another goroutine waits
\* to store the same schema
C39_Witness ==
    \E g, h \in Threads :
        /\ g # h
        /\ th[g].at = "inserted" /\ maxSize = MaxSize
        /\ Size(th[g].seen) = MaxSize
        /\ CacheKey(th[g].doc) \in DOMAIN th[g].seen
        /\ Size(schemas) = 1
        /\ th[h].at = "waiting" /\ th[h].op = "Set" /\ th[h].doc = th[g].doc

\* g is between taking and releasing the lock
InSection(g) == th[g].at \in {"in", "out", "evicted", "inserted"}

\* C15: Get and Size hold the read lock together with any number of other
\* readers, and readers alone never keep a reader out; Set holds the lock
\* alone from before the clear until after the insertion, so nobody reads
\* or writes the map in between: what a reader saw stays true while it holds
\* the lock, and a Set leaves exactly Set(map at Lock, key, schema).
C15_ReadersShareWritersExclude ==
    \A g \in Threads :
        /\ (InSection(g) /\ th[g].op = "Set") =>
              /\ mu.writer = g /\ mu.readers = {}
              /\ \A h \in Threads \ {g} : ~InSection(h)
        /\ (InSection(g) /\ th[g].op \in {"Get", "Size"}) =>
              g \in mu.readers /\ mu.writer = 0
        /\ (th[g].at = "out" /\ th[g].op = "Get") =>
              th[g].seen = Get(schemas, CacheKey(th[g].doc))
        /\ (th[g].at = "out" /\ th[g].op = "Size") => th[g].seen = Size(schemas)
        /\ th[g].at = "evicted" => schemas = Evicted(th[g].seen)
        /\ th[g].at = "inserted" =>
              schemas = Set(th[g].seen, CacheKey(th[g].doc), Stores(g, th[g].doc))
        /\ (th[g].at = "idle" /\ mu.writer = 0 /\ mu.waiting = {}) =>
              ENABLED Call(g, "Get", S_any)

\* C15 witness: two goroutines are inside Get and Size at the same time
\* while a third waits in Lock for its Set
C15_Witness ==
    /\ th[1].at = "out" /\ th[1].op = "Get"
    /\ th[2].at = "in" /\ th[2].op = "Size"
    /\ th[3].at = "waiting" /\ th[3].op = "Set"
    /\ Size(schemas) = maxSize /\ maxSize = MaxSize
====
